---- MODULE Spec2Model ----
(***************************************************************************)
(* Verification model of go-test-my-db: the dependency resolver            *)
(* (internal/depgraph), the row generation engine (internal/generator)     *)
(* and the seeding orchestrator (internal/seeder).                         *)
(***************************************************************************)
EXTENDS Integers, Sequences, FiniteSets, TLC

(***************************************************************************)
(* Bounds of the model.                                                    *)
(***************************************************************************)
\* number of tables known to the schema (allTables)
NumTables == 3
\* total number of columns over all tables of a schema
MaxColumns == 3

(***************************************************************************)
(* Generic helpers.                                                        *)
(***************************************************************************)
Range(s) == {s[i] : i \in 1..Len(s)}

Reverse(s) == [i \in 1..Len(s) |-> s[Len(s) + 1 - i]]

\* all orders in which a Go `range` over a map with key set S may produce the keys
Perms(S) == {p \in [1..Cardinality(S) -> S] : Range(p) = S}

Contains(s, x) == \E i \in 1..Len(s) : s[i] = x

NoDuplicates(s) == \A i \in 1..Len(s) : \A j \in 1..Len(s) : s[i] = s[j] => i = j

(***************************************************************************)
(* Dependency resolver: depgraph.Resolve and detectCycle.                  *)
(*                                                                         *)
(* A table is modelled by the sequence of its FK columns, an FK column by  *)
(* the table it references (Missing: a name that is no key of allTables).  *)
(* The columns with col.FK == nil, which every loop of Resolve and of      *)
(* detectCycle skips first thing, are left out.                            *)
(***************************************************************************)
TableNames == 1..NumTables
Missing == 0
Refs == TableNames \cup {Missing}

VARIABLES
  allTables,     \* Resolve's parameter allTables: name -> columns
  requested,     \* keys of Resolve's parameter tables at the call
  tables,        \* keys of the map tables, which the closure loop extends
  autoIncluded,  \* the slice autoIncluded
  changed,       \* the flag of the closure loop
  passStart,     \* keys of tables when the current `range tables` began
  visited,       \* keys the current `range tables` has produced
  inDegree,      \* the map inDegree
  children,      \* the map children
  rpc,           \* position in Resolve: "closure", "build", "kahn", "done"
  result         \* the four values Resolve returned

resolveVars == <<allTables, requested, tables, autoIncluded, changed, passStart,
                 visited, inDegree, children, rpc, result>>

VARIABLES
  clear,             \* cfg.Clear: the table is truncated before the run
  persisted,         \* values of the unique column in the table when its uniqueness state is read
  existingUniques,   \* the generator's field existingUniques for the column
  seen,              \* uniqueTracker.seen of the column's wrapper
  attempt,           \* the loop variable of the wrapper
  upc,               \* position in the wrapper: "idle", "loop", "panic"
  drawn,             \* the value orig() returned last
  returned           \* the values the wrapped generator has returned

uniqueVars == <<clear, persisted, existingUniques, seen, attempt, upc, drawn, returned>>

VARIABLES
  uniqueIndexes,     \* table.UniqueIndexes: the column names of every index
  compositeUniques,  \* rg.compositeUniques: colIndices and seen of every tracker
  rowAttempt,        \* the loop variable of GenerateRow
  rowPc,             \* position in GenerateRow: "idle", "loop", "panic"
  row,               \* the row the generators produced last
  rows,              \* the rows GenerateRow has returned
  rowCount           \* how many rows GenerateRow has returned

rowVars == <<uniqueIndexes, compositeUniques, rowAttempt, rowPc, row, rows, rowCount>>

VARIABLES
  fkColumns,         \* rg.columns of a table of FK columns, in table order
  fkLookups,         \* rg.fkLookups
  fkGenerators,      \* rg.generators as applyFKCorrelations leaves them
  fkGroups,          \* the corrGroup of every driver column: current and ready
  fkRow,             \* the row GenerateRow returned last: column -> value
  fkRowCount         \* how many rows GenerateRow has returned

fkVars == <<fkColumns, fkLookups, fkGenerators, fkGroups, fkRow, fkRowCount>>

VARIABLES
  corrColumns,       \* rg.columns of a table with one correlation group, in table order
  group,             \* group.Columns, in the order of the configuration
  corrNullable,      \* the columns with IsNullable && !IsPrimaryKey
  anyNullable,       \* whether a member of the group is nullable
  corrGenerators,    \* rg.generators as applyCorrelationGroup leaves them
  state,             \* the correlationState of the group: values and ready
  steps,             \* history: how often the group's values have been generated
  stepOf,            \* history: member -> the generation that wrote state.values of it
  corrPc,            \* "idle", or "panic" after a generator panicked
  corrRow,           \* the row GenerateRow returned last: column -> value
  corrRowCount       \* how many rows GenerateRow has returned

corrVars == <<corrColumns, group, corrNullable, anyNullable, corrGenerators, state, steps, stepOf, corrPc, corrRow,
              corrRowCount>>

VARIABLES
  stPc,              \* position of seedTable: "prepare", "produce", "generate", "select", "wait",
                     \* "decide", "returned"
  stRun,             \* what SeedAll and cfg give: Clear, target rows, current rows, BatchSize, Workers
  totalRows,         \* totalRows
  batchSize,         \* batchSize
  remaining,         \* remaining: rows the producer has still to generate
  pending,           \* len(rows) of the batch the producer holds at its select, 0 without one
  generating,        \* the goroutines that are inside gen.GenerateRow
  batches,           \* the channel batches: the batches queued in it
  batchesClosed,     \* close(batches) was executed
  ctxDone,           \* ctx.Done() is closed
  errCh,             \* the channel errCh: the errors queued in it
  errOnce,           \* errOnce: "fresh", "running" (by which worker) or "done"
  wpc,               \* worker -> "off", "recv", "insert", "once", "cancel", "exited"
  wBatch,            \* worker -> the batch it received last
  stReturn,          \* what seedTable returned: "none", "nil" or "error"
  nextBatch,         \* history: the number of the batch the producer generates next
  lateBatches,       \* history: batches put into the channel after ctx was cancelled
  insertedBatches,   \* history: batches whose insert statement was executed
  cancelSignals,     \* history: how often a worker has called cancel()
  signalled,         \* history: the workers whose insert failed, in the order they entered errOnce.Do
  prepFailed,        \* history: seedTable returned an error before it started a worker
  enqueued,          \* history: len(rows) of every batch put into the channel, by batch number
  insertedBy         \* history: by batch number, the workers that executed an insert of it

seedTableVars == <<stPc, stRun, totalRows, batchSize, remaining, pending, generating,
                   batches, batchesClosed, ctxDone, errCh, errOnce, wpc,
                   wBatch, stReturn, nextBatch, lateBatches, insertedBatches,
                   cancelSignals, signalled, prepFailed, enqueued, insertedBy>>

VARIABLES
  saCfg,             \* cfg: LoadData, Clear, DeferIndexes, FKSampleSize, and @@local_infile
  saTables,          \* cfg.Tables in order: FK references, rows and indexes of each table
  saPc,              \* position of SeedAll
  saIdx,             \* the loop variable i of `for i, table := range cfg.Tables`, from 1
  saReturn,          \* what SeedAll returned: "none", "nil" or "error"
  checksOff,         \* the checks of the session that are disabled: "fk", "unique"
  mutated,           \* a statement that changes the database or the session was executed
  droppedIndexes,    \* droppedIndexes of the table being processed
  rowsIn,            \* table -> number of rows the table holds
  fkCache,           \* fkCache: referenced table -> number of cached values
  tableFKValues,     \* tableFKValues of the table being processed, by referenced table
  saDone,            \* history: table -> the steps of SeedAll completed for it
  saDropped,         \* history: table -> the indexes SeedAll dropped
  saRestoreIssued    \* history: table -> the indexes of the restore statement issued

seedAllVars == <<saCfg, saTables, saPc, saIdx, saReturn, checksOff, mutated,
                 droppedIndexes, rowsIn, fkCache, tableFKValues, saDone, saDropped,
                 saRestoreIssued>>

VARIABLES
  rsValues,          \* reservoirSample's parameter values
  maxSample,         \* reservoirSample's parameter maxSample
  reservoir,         \* the slice reservoir: for every slot the position in values its item was copied from
  rsI,               \* the loop variable i, counted from 0 as in the code
  rsPc,              \* position in reservoirSample: "entry", "loop", "done"
  rsResult           \* the slice reservoirSample returned

reservoirVars == <<rsValues, maxSample, reservoir, rsI, rsPc, rsResult>>

VARIABLES
  fiIndexes,         \* filterFKBackingIndexes' parameter indexes: Name and column names of every index
  fkColSets,         \* filterFKBackingIndexes' parameter fkColSets
  fiPc,              \* position of filterFKBackingIndexes: "enter", "count", "mark", "split", "done"
  fiI,               \* the loop variable of the loop at fiPc
  fks,               \* fks[i].backers: the positions of the indexes that can back FK i
  mustKeep,          \* the keys of the map mustKeep
  droppable,         \* the result droppable
  kept               \* the result kept

indexFilterVars == <<fiIndexes, fkColSets, fiPc, fiI, fks, mustKeep, droppable, kept>>

VARIABLES
  ixTable,           \* the table's secondary indexes in the database
  ixIndexes,         \* the slice droppedIndexes handed to dropSecondaryIndexes and restoreSecondaryIndexes
  dropStmt,          \* the statement buildDropStatement returned
  restoreStmt,       \* the statement buildRestoreStatement returned
  ixPc               \* "drop", "execdrop", "restore", "execrestore", "dropfailed", "restorefailed", "restored"

indexStmtVars == <<ixTable, ixIndexes, dropStmt, restoreStmt, ixPc>>

VARIABLES
  csvRow,            \* WriteRow's parameter row
  csvBuf,            \* cw.buf
  csvI,              \* the loop variable i of WriteRow
  csvPc,             \* "fields", "newline", "write", "load", "loaded"
  csvWritten,        \* the bytes handed to cw.w.Write
  csvLoaded          \* the fields LOAD DATA makes of the bytes written, line by line

csvVars == <<csvRow, csvBuf, csvI, csvPc, csvWritten, csvLoaded>>

VARIABLES
  rcParents,         \* relations.Parents of every table of order; table i is order[i]
  rcRows,            \* cfg.Tables[name].Rows of every table, 0 for a table without entry
  baseRows,          \* computeRowCounts' parameter baseRows
  minC,              \* computeRowCounts' parameter minC
  maxC,              \* computeRowCounts' parameter maxC
  maxRowsCap,        \* computeRowCounts' parameter maxRowsCap
  rowCounts,         \* the map rowCounts
  rcI                \* the position in order of the next table of the loop

rowCountVars == <<rcParents, rcRows, baseRows, minC, maxC, maxRowsCap, rowCounts, rcI>>

VARIABLES
  cgCol,             \* the column: its flags, and the first of the strategies 3 to 6 that takes it
  cgFKValues,        \* whether rg.fkValues holds a non-empty list for the column
  cgInTable,         \* the values of the column in the table when seedTable starts
  cgComposite,       \* whether the column belongs to a composite unique index
  cgGen,             \* the column's generator: its strategy, NULL wrapper and uniqueness wrapper
  cgSeq,             \* rg.sequences[col.Name]: <<n>>, <<>> without entry
  cgSeen,            \* tracker.seen of the retry wrapper
  cgPc,              \* "new", "skipped", "ready", "check", "described"
  cgDescribed,       \* what DescribeGenerator returned for the column in a dry run
  cgProduced,        \* the values the column's generator returned, discarded rows included
  cgRetried,         \* how many values the retry wrapper discarded
  cgDiscarded        \* how many rows GenerateRow discarded

columnGenVars == <<cgCol, cgFKValues, cgInTable, cgComposite, cgGen, cgSeq, cgSeen, cgPc,
                   cgDescribed, cgProduced, cgRetried, cgDiscarded>>

VARIABLES
  dtColumns,         \* the FK columns of table, in order: what each references
  dtParents,         \* allTables: table name -> what its FK columns reference, in order
  dtResult,          \* the slice detectFKCorrelations returned
  dtPc               \* "call", "done"

detectVars == <<dtColumns, dtParents, dtResult, dtPc>>

vars == <<resolveVars, uniqueVars, rowVars, fkVars, corrVars, seedTableVars,
          seedAllVars, reservoirVars, indexFilterVars, indexStmtVars,
          csvVars, rowCountVars, columnGenVars, detectVars>>

otherThanResolve == <<uniqueVars, rowVars, fkVars, corrVars, seedTableVars,
                      seedAllVars, reservoirVars, indexFilterVars,
                      indexStmtVars, csvVars, rowCountVars, columnGenVars,
                      detectVars>>
otherThanUnique == <<resolveVars, rowVars, fkVars, corrVars, seedTableVars,
                     seedAllVars, reservoirVars, indexFilterVars,
                     indexStmtVars, csvVars, rowCountVars, columnGenVars,
                     detectVars>>
otherThanRow == <<resolveVars, uniqueVars, fkVars, corrVars, seedTableVars,
                  seedAllVars, reservoirVars, indexFilterVars, indexStmtVars,
                  csvVars, rowCountVars, columnGenVars, detectVars>>
otherThanFK == <<resolveVars, uniqueVars, rowVars, corrVars, seedTableVars,
                 seedAllVars, reservoirVars, indexFilterVars, indexStmtVars,
                 csvVars, rowCountVars, columnGenVars, detectVars>>
otherThanCorr == <<resolveVars, uniqueVars, rowVars, fkVars, seedTableVars,
                   seedAllVars, reservoirVars, indexFilterVars,
                   indexStmtVars, csvVars, rowCountVars, columnGenVars,
                   detectVars>>
otherThanSeedTable == <<resolveVars, uniqueVars, rowVars, fkVars, corrVars,
                        seedAllVars, reservoirVars, indexFilterVars,
                        indexStmtVars, csvVars, rowCountVars, columnGenVars,
                        detectVars>>
otherThanSeedAll == <<resolveVars, uniqueVars, rowVars, fkVars, corrVars,
                      seedTableVars, reservoirVars, indexFilterVars,
                      indexStmtVars, csvVars, rowCountVars, columnGenVars,
                      detectVars>>
otherThanReservoir == <<resolveVars, uniqueVars, rowVars, fkVars, corrVars,
                        seedTableVars, seedAllVars, indexFilterVars,
                        indexStmtVars, csvVars, rowCountVars, columnGenVars,
                        detectVars>>
otherThanIndexFilter == <<resolveVars, uniqueVars, rowVars, fkVars, corrVars,
                          seedTableVars, seedAllVars, reservoirVars,
                          indexStmtVars, csvVars, rowCountVars,
                          columnGenVars, detectVars>>
otherThanIndexStmt == <<resolveVars, uniqueVars, rowVars, fkVars, corrVars,
                        seedTableVars, seedAllVars, reservoirVars,
                        indexFilterVars, csvVars, rowCountVars,
                        columnGenVars, detectVars>>
otherThanCsv == <<resolveVars, uniqueVars, rowVars, fkVars, corrVars,
                  seedTableVars, seedAllVars, reservoirVars, indexFilterVars,
                  indexStmtVars, rowCountVars, columnGenVars, detectVars>>
otherThanRowCount == <<resolveVars, uniqueVars, rowVars, fkVars, corrVars,
                       seedTableVars, seedAllVars, reservoirVars,
                       indexFilterVars, indexStmtVars, csvVars,
                       columnGenVars, detectVars>>
otherThanColumnGen == <<resolveVars, uniqueVars, rowVars, fkVars, corrVars,
                        seedTableVars, seedAllVars, reservoirVars,
                        indexFilterVars, indexStmtVars, csvVars,
                        rowCountVars, detectVars>>
otherThanDetect == <<resolveVars, uniqueVars, rowVars, fkVars, corrVars,
                     seedTableVars, seedAllVars, reservoirVars,
                     indexFilterVars, indexStmtVars, csvVars, rowCountVars,
                     columnGenVars>>

\* the state of the other components while one component is exercised
ResolveIdle ==
  /\ allTables = <<>> /\ requested = {} /\ tables = {} /\ autoIncluded = <<>>
  /\ changed = FALSE /\ passStart = {} /\ visited = {} /\ inDegree = <<>>
  /\ children = <<>> /\ rpc = "idle" /\ result = <<>>

UniqueIdle ==
  /\ clear = FALSE /\ persisted = {} /\ existingUniques = {} /\ seen = {}
  /\ attempt = 0 /\ upc = "off" /\ drawn = <<>> /\ returned = <<>>

RowIdle ==
  /\ uniqueIndexes = <<>> /\ compositeUniques = <<>> /\ rowAttempt = 0
  /\ rowPc = "off" /\ row = <<>> /\ rows = {} /\ rowCount = 0

FKIdle ==
  /\ fkColumns = <<>> /\ fkLookups = <<>> /\ fkGenerators = <<>> /\ fkGroups = <<>>
  /\ fkRow = <<>> /\ fkRowCount = 0

CorrIdle ==
  /\ corrColumns = <<>> /\ group = <<>> /\ corrNullable = {} /\ anyNullable = FALSE
  /\ corrGenerators = <<>> /\ state = <<>>
  /\ steps = 0 /\ stepOf = <<>> /\ corrPc = "off" /\ corrRow = <<>> /\ corrRowCount = 0

SeedTableIdle ==
  /\ stPc = "off" /\ remaining = 0 /\ batches = <<>> /\ batchesClosed = FALSE
  /\ ctxDone = FALSE /\ errCh = <<>> /\ errOnce = "fresh" /\ wpc = <<>> /\ wBatch = <<>>
  /\ stReturn = "none" /\ nextBatch = 0 /\ lateBatches = {} /\ insertedBatches = {}
  /\ cancelSignals = 0 /\ signalled = <<>> /\ prepFailed = FALSE
  /\ stRun = <<>> /\ totalRows = 0 /\ batchSize = 0 /\ pending = 0 /\ generating = {}
  /\ enqueued = <<>> /\ insertedBy = <<>>

SeedAllIdle ==
  /\ saCfg = <<>> /\ saTables = <<>> /\ saPc = "off" /\ saIdx = 0 /\ saReturn = "none"
  /\ checksOff = {} /\ mutated = FALSE /\ droppedIndexes = {} /\ rowsIn = <<>>
  /\ fkCache = <<>> /\ tableFKValues = <<>> /\ saDone = <<>> /\ saDropped = <<>>
  /\ saRestoreIssued = <<>>

ReservoirIdle ==
  /\ rsValues = <<>> /\ maxSample = 0 /\ reservoir = <<>> /\ rsI = 0 /\ rsPc = "off"
  /\ rsResult = <<>>

IndexFilterIdle ==
  /\ fiIndexes = <<>> /\ fkColSets = <<>> /\ fiPc = "idle" /\ fiI = 0
  /\ fks = <<>> /\ mustKeep = {} /\ droppable = <<>> /\ kept = <<>>

IndexStmtIdle ==
  /\ ixTable = {} /\ ixIndexes = <<>> /\ dropStmt = <<>> /\ restoreStmt = <<>>
  /\ ixPc = "idle"

CsvIdle ==
  /\ csvRow = <<>> /\ csvBuf = <<>> /\ csvI = 0 /\ csvPc = "idle"
  /\ csvWritten = <<>> /\ csvLoaded = <<>>

RowCountIdle ==
  /\ rcParents = <<>> /\ rcRows = <<>> /\ baseRows = 0 /\ minC = 0 /\ maxC = 0
  /\ maxRowsCap = 0 /\ rowCounts = <<>> /\ rcI = 0

ColumnGenIdle ==
  /\ cgCol = <<>> /\ cgFKValues = FALSE /\ cgInTable = {} /\ cgComposite = FALSE
  /\ cgGen = <<>> /\ cgSeq = <<>> /\ cgSeen = {} /\ cgPc = "idle"
  /\ cgDescribed = ""
  /\ cgProduced = <<>> /\ cgRetried = 0 /\ cgDiscarded = 0

DetectIdle ==
  /\ dtColumns = <<>> /\ dtParents = <<>> /\ dtResult = <<>> /\ dtPc = "idle"

IdleExcept(component) ==
  /\ IF component = "resolve" THEN TRUE ELSE ResolveIdle
  /\ IF component = "unique" THEN TRUE ELSE UniqueIdle
  /\ IF component = "row" THEN TRUE ELSE RowIdle
  /\ IF component = "fk" THEN TRUE ELSE FKIdle
  /\ IF component = "corr" THEN TRUE ELSE CorrIdle
  /\ IF component = "seedTable" THEN TRUE ELSE SeedTableIdle
  /\ IF component = "seedAll" THEN TRUE ELSE SeedAllIdle
  /\ IF component = "reservoir" THEN TRUE ELSE ReservoirIdle
  /\ IF component = "indexFilter" THEN TRUE ELSE IndexFilterIdle
  /\ IF component = "indexStmt" THEN TRUE ELSE IndexStmtIdle
  /\ IF component = "csv" THEN TRUE ELSE CsvIdle
  /\ IF component = "rowCount" THEN TRUE ELSE RowCountIdle
  /\ IF component = "columnGen" THEN TRUE ELSE ColumnGenIdle
  /\ IF component = "detect" THEN TRUE ELSE DetectIdle

\* the return values before Resolve has returned
NoResult == [order |-> <<>>, autoIncluded |-> <<>>, relations |-> "none",
             err |-> FALSE, cycle |-> <<>>]

\* ScanColumns without the test that the referenced table is not yet in the set
RECURSIVE ScanColumnsNoMembership(_, _, _)
ScanColumnsNoMembership(t, i, st) ==
  IF i > Len(allTables[t]) THEN st
  ELSE LET ref == allTables[t][i] IN
    IF ref = t THEN ScanColumnsNoMembership(t, i + 1, st)
    ELSE IF ref \in DOMAIN allTables /\ ~Contains(st.autoIncluded, ref)
      THEN ScanColumnsNoMembership(t, i + 1,
             [tables |-> st.tables \cup {ref},
              autoIncluded |-> Append(st.autoIncluded, ref),
              changed |-> TRUE])
      ELSE ScanColumnsNoMembership(t, i + 1, st)

\* the closure loop body for one table t: every column in declaration order
RECURSIVE ScanColumns(_, _, _)
ScanColumns(t, i, st) ==
  IF i > Len(allTables[t]) THEN st
  ELSE LET ref == allTables[t][i] IN
    IF ref = t THEN ScanColumns(t, i + 1, st)
    ELSE IF ref \notin st.tables /\ ref \in DOMAIN allTables
      THEN ScanColumns(t, i + 1,
             [tables |-> st.tables \cup {ref},
              autoIncluded |-> Append(st.autoIncluded, ref),
              changed |-> TRUE])
      ELSE ScanColumns(t, i + 1, st)

\* AddEdges without the skip of self-references
RECURSIVE AddEdgesWithSelf(_, _, _)
AddEdgesWithSelf(t, i, g) ==
  IF i > Len(allTables[t]) THEN g
  ELSE LET parent == allTables[t][i] IN
    IF parent \notin tables THEN AddEdgesWithSelf(t, i + 1, g)
    ELSE AddEdgesWithSelf(t, i + 1,
           [children |-> [g.children EXCEPT ![parent] = Append(@, t)],
            inDegree |-> [g.inDegree EXCEPT ![t] = @ + 1]])

\* the edges one table contributes to the adjacency list
RECURSIVE AddEdges(_, _, _)
AddEdges(t, i, g) ==
  IF i > Len(allTables[t]) THEN g
  ELSE LET parent == allTables[t][i] IN
    IF parent = t \/ parent \notin tables THEN AddEdges(t, i + 1, g)
    ELSE AddEdges(t, i + 1,
           [children |-> [g.children EXCEPT ![parent] = Append(@, t)],
            inDegree |-> [g.inDegree EXCEPT ![t] = @ + 1]])

\* `for _, t := range tables` in the order perm
RECURSIVE BuildAdjacency(_, _, _)
BuildAdjacency(perm, k, g) ==
  IF k > Len(perm) THEN g
  ELSE BuildAdjacency(perm, k + 1, AddEdges(perm[k], 1, g))

\* ReleaseChildren that enqueues a child as soon as one of its parents is done
RECURSIVE ReleaseChildrenEarly(_, _, _)
ReleaseChildrenEarly(cs, j, st) ==
  IF j > Len(cs) THEN st
  ELSE LET child == cs[j]
           deg == st.inDegree[child] - 1
       IN ReleaseChildrenEarly(cs, j + 1,
            [queue |-> IF Contains(st.queue, child) \/ Contains(st.order, child)
                         THEN st.queue ELSE Append(st.queue, child),
             order |-> st.order,
             inDegree |-> [st.inDegree EXCEPT ![child] = deg]])

\* the inner loop of Kahn's algorithm over children[node]
RECURSIVE ReleaseChildren(_, _, _)
ReleaseChildren(cs, j, st) ==
  IF j > Len(cs) THEN st
  ELSE LET child == cs[j]
           deg == st.inDegree[child] - 1
       IN ReleaseChildren(cs, j + 1,
            [queue |-> IF deg = 0 THEN Append(st.queue, child) ELSE st.queue,
             order |-> st.order,
             inDegree |-> [st.inDegree EXCEPT ![child] = deg]])

\* `for len(queue) > 0`
RECURSIVE KahnLoop(_)
KahnLoop(st) ==
  IF Len(st.queue) = 0 THEN st.order
  ELSE LET node == Head(st.queue) IN
    KahnLoop(ReleaseChildren(children[node], 1,
               [queue |-> Tail(st.queue),
                order |-> Append(st.order, node),
                inDegree |-> st.inDegree]))

\* colours of detectCycle
white == 0
gray == 1
black == 2

\* the path rebuilt when the walk at node meets the gray table next
RECURSIVE WalkBack(_, _, _, _)
WalkBack(cur, next, parent, path) ==
  IF cur = next THEN path
  ELSE WalkBack(parent[cur], next, parent, Append(path, parent[cur]))

\* CyclePath without the reversal
CyclePathNotReversed(node, next, parent) == WalkBack(node, next, parent, <<next, node>>)

CyclePath(node, next, parent) == Reverse(WalkBack(node, next, parent, <<next, node>>))

\* the closure dfs of detectCycle, from column i of node on
RECURSIVE dfs(_, _, _)
dfs(node, i, st) ==
  IF i > Len(allTables[node])
    THEN [found |-> FALSE, cyclePath |-> <<>>,
          color |-> [st.color EXCEPT ![node] = black], parent |-> st.parent]
  ELSE LET next == allTables[node][i] IN
    IF next = node \/ next \notin tables THEN dfs(node, i + 1, st)
    ELSE IF st.color[next] = gray
      THEN [found |-> TRUE, cyclePath |-> CyclePath(node, next, st.parent),
            color |-> st.color, parent |-> st.parent]
    ELSE IF st.color[next] = white
      THEN LET sub == dfs(next, 1,
                        [color |-> [st.color EXCEPT ![next] = gray],
                         parent |-> [st.parent EXCEPT ![next] = node]])
           IN IF sub.found THEN sub
              ELSE dfs(node, i + 1, [color |-> sub.color, parent |-> sub.parent])
    ELSE dfs(node, i + 1, st)

\* `for name := range tables` of detectCycle in the order perm
RECURSIVE detectCycleFrom(_, _, _)
detectCycleFrom(perm, k, st) ==
  IF k > Len(perm) THEN <<"(unknown cycle)">>
  ELSE IF st.color[perm[k]] = white
    THEN LET r == dfs(perm[k], 1,
                    [color |-> [st.color EXCEPT ![perm[k]] = gray], parent |-> st.parent])
         IN IF r.found THEN r.cyclePath
            ELSE detectCycleFrom(perm, k + 1, [color |-> r.color, parent |-> r.parent])
  ELSE detectCycleFrom(perm, k + 1, st)

detectCycle(perm) ==
  detectCycleFrom(perm, 1, [color |-> [n \in tables |-> white],
                            parent |-> [n \in tables |-> Missing]])

\* the parents of one table, one entry per FK column, before deduplication
RECURSIVE ParentColumns(_, _)
ParentColumns(t, i) ==
  IF i > Len(allTables[t]) THEN <<>>
  ELSE LET p == allTables[t][i] IN
    IF p = t \/ p \notin tables THEN ParentColumns(t, i + 1)
    ELSE <<p>> \o ParentColumns(t, i + 1)

\* no deduplication: one entry per FK column
KeepEveryColumn(ps, i, seenParents) == ps

\* the deduplication loop: the first occurrence of every parent is kept
RECURSIVE Dedupe(_, _, _)
Dedupe(ps, i, seenParents) ==
  IF i > Len(ps) THEN <<>>
  ELSE IF ps[i] \in seenParents THEN Dedupe(ps, i + 1, seenParents)
  ELSE <<ps[i]>> \o Dedupe(ps, i + 1, seenParents \cup {ps[i]})

\* the map parents: only tables with at least one in-set parent have an entry
BuildParents ==
  LET withParents == {t \in tables : Len(ParentColumns(t, 1)) > 0}
  IN [t \in withParents |-> Dedupe(ParentColumns(t, 1), 1, {})]

\* how many of the columns listed in f belong to table t
ColumnCount(f, t) == Cardinality({i \in DOMAIN f : f[i][1] = t})

\* the schemas: at most MaxColumns columns in all, listed table by table. Resolve
\* uses a table name only as a map key and every iteration order of the maps is
\* modelled, so each schema is a renaming of one whose tables are numbered by
\* non-increasing number of columns: only those are listed.
Schemas ==
  UNION {{f \in [1..k -> TableNames \X Refs] :
            /\ \A i \in 1..k : \A j \in 1..k : i < j => f[i][1] <= f[j][1]
            /\ \A t \in TableNames : \A u \in TableNames :
                 t < u => ColumnCount(f, t) >= ColumnCount(f, u)} :
         k \in 0..MaxColumns}

ColumnsOf(f, t) ==
  LET own == SelectSeq(f, LAMBDA c : c[1] = t)
  IN [i \in 1..Len(own) |-> own[i][2]]

\* Resolve is entered: `for changed` has set changed = false and the first
\* range over tables begins
ResolveInit ==
  /\ \E f \in Schemas : allTables = [t \in TableNames |-> ColumnsOf(f, t)]
  /\ requested \in SUBSET TableNames
  /\ tables = requested
  /\ autoIncluded = <<>>
  /\ changed = FALSE
  /\ passStart = requested
  /\ visited = {}
  /\ inDegree = <<>>
  /\ children = <<>>
  /\ rpc = "closure"
  /\ result = NoResult
  /\ IdleExcept("resolve")

\* one iteration of `for _, t := range tables` of the closure loop. A range over
\* a map produces every key the map held when the range began, each once; a key
\* added while the range runs is produced after that or not at all.
ScanTable(t) ==
  /\ rpc = "closure"
  /\ t \in tables \ visited
  /\ LET st == ScanColumns(t, 1, [tables |-> tables, autoIncluded |-> autoIncluded,
                                  changed |-> changed])
     IN /\ tables' = st.tables
        /\ autoIncluded' = st.autoIncluded
        /\ changed' = st.changed
  /\ visited' = visited \cup {t}
  /\ UNCHANGED <<allTables, requested, passStart, inDegree, children, rpc, result>>
  /\ UNCHANGED otherThanResolve

\* the range is over: `for changed` starts the next range or ends
EndPass ==
  /\ rpc = "closure"
  /\ passStart \subseteq visited
  /\ IF changed
       THEN /\ changed' = FALSE
            /\ passStart' = tables
            /\ visited' = {}
            /\ rpc' = rpc
       ELSE /\ rpc' = "build"
            /\ UNCHANGED <<changed, passStart, visited>>
  /\ UNCHANGED <<allTables, requested, tables, autoIncluded, inDegree, children, result>>
  /\ UNCHANGED otherThanResolve

\* lines 48-70: inDegree and children
BuildGraph ==
  /\ rpc = "build"
  /\ \E perm \in Perms(tables) :
       LET g == BuildAdjacency(perm, 1, [children |-> [n \in tables |-> <<>>],
                                        inDegree |-> [n \in tables |-> 0]])
       IN /\ children' = g.children
          /\ inDegree' = g.inDegree
  /\ rpc' = "kahn"
  /\ UNCHANGED <<allTables, requested, tables, autoIncluded, changed, passStart,
                 visited, result>>
  /\ UNCHANGED otherThanResolve

\* lines 72-130: Kahn's algorithm, then the cycle report or the relations
Kahn ==
  /\ rpc = "kahn"
  /\ \E perm \in Perms({n \in tables : inDegree[n] = 0}) :
       LET order == KahnLoop([queue |-> perm, order |-> <<>>, inDegree |-> inDegree])
       IN IF Len(order) # Cardinality(tables)
            THEN \E dperm \in Perms(tables) :
                   result' = [order |-> <<>>, autoIncluded |-> <<>>,
                              relations |-> "none", err |-> TRUE,
                              cycle |-> detectCycle(dperm)]
            ELSE result' = [order |-> order, autoIncluded |-> autoIncluded,
                            relations |-> BuildParents, err |-> FALSE,
                            cycle |-> <<>>]
  /\ rpc' = "done"
  /\ UNCHANGED <<allTables, requested, tables, autoIncluded, changed, passStart,
                 visited, inDegree, children>>
  /\ UNCHANGED otherThanResolve

ResolveNext ==
  \/ \E t \in TableNames : ScanTable(t)
  \/ EndPass
  \/ BuildGraph
  \/ Kahn

SpecResolve == ResolveInit /\ [][ResolveNext]_vars

(***************************************************************************)
(* Values of the row generator. A Go value of type any is nil, an integer  *)
(* or a string; a string is the sequence of its characters.                *)
(***************************************************************************)
NULL == [t |-> "nil"]
IntV(n) == [t |-> "int", i |-> n]
StrV(s) == [t |-> "string", s |-> s]

\* the character "\x00"
NUL == "NUL"

DigitChar(d) == <<"0", "1", "2", "3", "4", "5", "6", "7", "8", "9">>[d + 1]

RECURSIVE Itoa(_)
Itoa(n) == IF n < 10 THEN <<DigitChar(n)>> ELSE Itoa(n \div 10) \o <<DigitChar(n % 10)>>

\* fmt.Sprint of a non-nil value
Sprint(v) == IF v.t = "int" THEN Itoa(v.i) ELSE v.s

\* strings.Join(parts, sep)
RECURSIVE Join(_, _)
Join(parts, sep) ==
  IF Len(parts) = 0 THEN <<>>
  ELSE IF Len(parts) = 1 THEN parts[1]
  ELSE parts[1] \o sep \o Join(Tail(parts), sep)

maxUniqueRetries == 100

(***************************************************************************)
(* Single-column unique constraint: uniqueTracker and the generator that   *)
(* wrapSingleUnique installs.                                              *)
(***************************************************************************)
\* number of values asked from the wrapped generator
MaxValues == 3

\* what the column's base generator orig() may return
UniqueColumnValues == {NULL, IntV(1), IntV(2), StrV(<<"1">>), StrV(<<"2">>)}

\* tryAdd that records nothing
tryAddForgetful(tracker, v) ==
  IF v = NULL THEN [ok |-> TRUE, seen |-> tracker]
  ELSE IF Sprint(v) \in tracker THEN [ok |-> FALSE, seen |-> tracker]
  ELSE [ok |-> TRUE, seen |-> tracker]

\* uniqueTracker.tryAdd: the result and the tracker's seen afterwards
tryAdd(tracker, v) ==
  IF v = NULL THEN [ok |-> TRUE, seen |-> tracker]
  ELSE IF Sprint(v) \in tracker THEN [ok |-> FALSE, seen |-> tracker]
  ELSE [ok |-> TRUE, seen |-> tracker \cup {Sprint(v)}]

\* tracker := newUniqueTracker(): wrapSingleUnique does not read rg.existingUniques
newUniqueTracker(existing) == {}

\* SeedAll: existingUniques stays nil when the table was cleared; the error of
\* fetchExistingUniques is dropped, so a failed fetch leaves it nil as well
FetchedUniques(isClear, inTable) == IF isClear THEN {{}} ELSE {inTable, {}}

UniqueInit ==
  /\ clear \in BOOLEAN
  /\ \E inTable \in SUBSET {IntV(1), StrV(<<"2">>)} :
       persisted = IF clear THEN {} ELSE inTable
  /\ existingUniques \in FetchedUniques(clear, persisted)
  /\ seen = newUniqueTracker(existingUniques)
  /\ attempt = 0
  /\ upc = "idle"
  /\ drawn = NULL
  /\ returned = <<>>
  /\ IdleExcept("unique")

\* the wrapped generator is called
UniqueCall ==
  /\ upc = "idle"
  /\ Len(returned) < MaxValues
  /\ upc' = "loop"
  /\ attempt' = 0
  /\ UNCHANGED <<clear, persisted, existingUniques, seen, drawn, returned>>
  /\ UNCHANGED otherThanUnique

\* one iteration of `for attempt := range maxUniqueRetries`
UniqueAttempt(v) ==
  /\ upc = "loop"
  /\ attempt < maxUniqueRetries
  /\ drawn' = v
  /\ LET r == tryAdd(seen, v) IN
       /\ seen' = r.seen
       /\ IF r.ok
            THEN /\ returned' = Append(returned, v)
                 /\ upc' = "idle"
                 /\ UNCHANGED attempt
            ELSE /\ attempt' = attempt + 1
                 /\ UNCHANGED <<returned, upc>>
  /\ UNCHANGED <<clear, persisted, existingUniques>>
  /\ UNCHANGED otherThanUnique

\* the loop ran out: panic("unique constraint: exhausted ...")
UniqueExhausted ==
  /\ upc = "loop"
  /\ attempt >= maxUniqueRetries
  /\ upc' = "panic"
  /\ UNCHANGED <<clear, persisted, existingUniques, seen, attempt, drawn, returned>>
  /\ UNCHANGED otherThanUnique

UniqueNext ==
  \/ UniqueCall
  \/ \E v \in UniqueColumnValues : UniqueAttempt(v)
  \/ UniqueExhausted

SpecUnique == UniqueInit /\ [][UniqueNext]_vars

(***************************************************************************)
(* Composite unique indexes: compositeUniqueTracker, initUniqueTracking    *)
(* and RowGenerator.GenerateRow for a table (id, a, b, c) whose column id  *)
(* is auto-increment.                                                      *)
(***************************************************************************)
\* number of rows asked from GenerateRow
MaxRows == 2

\* table.Columns, and for each column whether NewRowGenerator skips it
TableColumns == <<"id", "a", "b", "c">>
IsAutoInc(col) == col = "id"

\* rg.columns: the columns that are generated
GeneratedColumns == SelectSeq(TableColumns, LAMBDA col : ~IsAutoInc(col))

\* what the generator of each column may return
ColumnValues(col) ==
  IF col = "c" THEN {IntV(1), StrV(<<"1">>)}
  ELSE {NULL, StrV(<<>>), StrV(<<NUL>>)}

\* every row the generators can produce in one pass
GeneratedRows ==
  {r \in [1..Len(GeneratedColumns) -> UNION {ColumnValues(GeneratedColumns[i]) :
                                             i \in 1..Len(GeneratedColumns)}] :
     \A i \in 1..Len(GeneratedColumns) : r[i] \in ColumnValues(GeneratedColumns[i])}

\* the unique indexes the table may have
TableShapes ==
  { <<>>,
    << <<"a", "b">> >>,
    << <<"a", "b">>, <<"b", "c">> >>,
    << <<"id", "a">>, <<"c", "b">> >>,
    << <<"a">>, <<"c", "a">> >> }

\* colIndex: name -> index in rg.columns, 0 when the column is not generated
colIndex(name) ==
  IF \E i \in 1..Len(GeneratedColumns) : GeneratedColumns[i] = name
    THEN CHOOSE i \in 1..Len(GeneratedColumns) : GeneratedColumns[i] = name
    ELSE 0

\* the loop of initUniqueTracking over table.UniqueIndexes: one tracker, with an
\* empty seen, for every index of two or more columns that are all generated
RECURSIVE initCompositeTrackers(_, _)
initCompositeTrackers(indexes, k) ==
  IF k > Len(indexes) THEN <<>>
  ELSE LET idx == indexes[k] IN
    IF Len(idx) < 2 \/ \E j \in 1..Len(idx) : colIndex(idx[j]) = 0
      THEN initCompositeTrackers(indexes, k + 1)
      ELSE <<[colIndices |-> [j \in 1..Len(idx) |-> colIndex(idx[j])], seen |-> {}]>>
           \o initCompositeTrackers(indexes, k + 1)

\* the key both check and record build: the tracked values, printed and joined
CompositeKey(ct, r) ==
  Join([i \in 1..Len(ct.colIndices) |-> Sprint(r[ct.colIndices[i]])], <<NUL>>)

HasNullIn(ct, r) == \E i \in 1..Len(ct.colIndices) : r[ct.colIndices[i]] = NULL

\* compositeUniqueTracker.check
check(ct, r) == IF HasNullIn(ct, r) THEN TRUE ELSE CompositeKey(ct, r) \notin ct.seen

\* record that keys the row by its first tracked column only
recordFirstColumn(ct, r) ==
  IF HasNullIn(ct, r) THEN ct
  ELSE [ct EXCEPT !.seen = @ \cup {Sprint(r[ct.colIndices[1]])}]

\* compositeUniqueTracker.record
record(ct, r) ==
  IF HasNullIn(ct, r) THEN ct
  ELSE [ct EXCEPT !.seen = @ \cup {CompositeKey(ct, r)}]

checkCompositeUniques(cts, r) == \A k \in 1..Len(cts) : check(cts[k], r)

recordCompositeUniques(cts, r) == [k \in 1..Len(cts) |-> record(cts[k], r)]

\* GenerateRow gives up after this many attempts have been made
RetriesExhaustedLate(n) == n > maxUniqueRetries

RetriesExhausted(n) == n >= maxUniqueRetries

RowInit ==
  /\ uniqueIndexes \in TableShapes
  /\ compositeUniques = initCompositeTrackers(uniqueIndexes, 1)
  /\ rowAttempt = 0
  /\ rowPc = "idle"
  /\ row = <<>>
  /\ rows = {}
  /\ rowCount = 0
  /\ IdleExcept("row")

\* GenerateRow is called
RowCall ==
  /\ rowPc = "idle"
  /\ rowCount < MaxRows
  /\ rowPc' = "loop"
  /\ rowAttempt' = 0
  /\ UNCHANGED <<uniqueIndexes, compositeUniques, row, rows, rowCount>>
  /\ UNCHANGED otherThanRow

\* one iteration of `for attempt := range maxUniqueRetries`: every generator is
\* called, then the row is returned or dropped
RowAttempt(r) ==
  /\ rowPc = "loop"
  /\ ~RetriesExhausted(rowAttempt)
  /\ row' = r
  /\ IF Len(compositeUniques) = 0 \/ checkCompositeUniques(compositeUniques, r)
       THEN /\ compositeUniques' = recordCompositeUniques(compositeUniques, r)
            /\ rows' = rows \cup {r}
            /\ rowCount' = rowCount + 1
            /\ rowPc' = "idle"
            /\ UNCHANGED rowAttempt
       ELSE /\ rowAttempt' = rowAttempt + 1
            /\ UNCHANGED <<compositeUniques, rows, rowCount, rowPc>>
  /\ UNCHANGED uniqueIndexes
  /\ UNCHANGED otherThanRow

\* the loop ran out: panic("unique constraint: exhausted ... composite unique ...")
RowExhausted ==
  /\ rowPc = "loop"
  /\ RetriesExhausted(rowAttempt)
  /\ rowPc' = "panic"
  /\ UNCHANGED <<uniqueIndexes, compositeUniques, rowAttempt, row, rows, rowCount>>
  /\ UNCHANGED otherThanRow

RowNext ==
  \/ RowCall
  \/ \E r \in GeneratedRows : RowAttempt(r)
  \/ RowExhausted

SpecRow == RowInit /\ [][RowNext]_vars

(***************************************************************************)
(* FK correlation: applyFKCorrelations and GenerateRow for a table whose   *)
(* columns are all FK columns, without unique indexes.                     *)
(***************************************************************************)
\* most FK lookups a generator is given
MaxLookups == 2

FKColumnNames == {"a", "b", "c"}

\* the parent keys an FK column's own generator picks from
FKValues == {IntV(1), IntV(2)}

\* FKLookup.Mapping: driver value -> derived value, not on every driver value
Mappings == { (IntV(1) :> IntV(2)) @@ (IntV(2) :> IntV(1)),
              (IntV(1) :> IntV(1)) }

FKLookup == [DerivedColumn : FKColumnNames, DriverColumn : FKColumnNames, Mapping : Mappings]

\* what detectFKCorrelations can return: a column is never derived from itself,
\* a derived column is claimed once, and two columns derive from each other only
\* if their parent tables reference each other, which Resolve refuses
LookupLists ==
  {ls \in UNION {[1..n -> FKLookup] : n \in 1..MaxLookups} :
     /\ \A i \in 1..Len(ls) : ls[i].DerivedColumn # ls[i].DriverColumn
     /\ \A i \in 1..Len(ls) : \A j \in 1..Len(ls) :
          i # j => /\ ls[i].DerivedColumn # ls[j].DerivedColumn
                   /\ ~(ls[i].DerivedColumn = ls[j].DriverColumn
                        /\ ls[j].DerivedColumn = ls[i].DriverColumn)}

\* the first loop: groupsByDriver (driver -> lookups of the group) and
\* derivedToDriver
RECURSIVE GroupLookups(_, _, _)
GroupLookups(ls, k, acc) ==
  IF k > Len(ls) THEN acc
  ELSE LET fl == ls[k]
           g == IF fl.DriverColumn \in DOMAIN acc.groupsByDriver
                  THEN acc.groupsByDriver[fl.DriverColumn]
                  ELSE <<>>
       IN GroupLookups(ls, k + 1,
            [groupsByDriver |-> [d \in DOMAIN acc.groupsByDriver \cup {fl.DriverColumn} |->
                                   IF d = fl.DriverColumn
                                     THEN (fl.DerivedColumn :> fl.Mapping) @@ g
                                     ELSE acc.groupsByDriver[d]],
             derivedToDriver |-> (fl.DerivedColumn :> fl.DriverColumn) @@ acc.derivedToDriver])

\* the group a column belongs to, by the name of the group's driver; the reading
\* of it as a driver wins over the reading of it as a derived column
GroupOf(colName, gl) ==
  IF colName \in DOMAIN gl.groupsByDriver THEN colName
  ELSE IF colName \in DOMAIN gl.derivedToDriver THEN gl.derivedToDriver[colName]
  ELSE "none"

\* the last loop: the generator of every column, with the groups that have a
\* trigger so far
RECURSIVE AssignGenerators(_, _, _, _, _)
AssignGenerators(cols, i, gl, triggered, gens) ==
  IF i > Len(cols) THEN gens
  ELSE LET g == GroupOf(cols[i], gl) IN
    IF g = "none"
      THEN AssignGenerators(cols, i + 1, gl, triggered,
                            Append(gens, [kind |-> "own", grp |-> "none"]))
    ELSE IF g \notin triggered
      THEN AssignGenerators(cols, i + 1, gl, triggered \cup {g},
                            Append(gens, [kind |-> "trigger", grp |-> g]))
      ELSE AssignGenerators(cols, i + 1, gl, triggered,
                            Append(gens, [kind |-> "read", grp |-> g]))

applyFKCorrelations(cols, ls) ==
  AssignGenerators(cols, 1,
                   GroupLookups(ls, 1, [groupsByDriver |-> <<>>, derivedToDriver |-> <<>>]),
                   {}, <<>>)

\* grp.current[colName]; a key the map does not hold reads as nil
Current(grp, colName) == IF colName \in DOMAIN grp.current THEN grp.current[colName] ELSE NULL

\* the generator of the group's first column: the driver's own generator picks
\* dv, then every derived column of the group is looked up
Trigger(grp, lookups, driverCol, dv) ==
  [ready |-> TRUE,
   current |-> [c \in DOMAIN grp.current \cup {driverCol} \cup DOMAIN lookups |->
                  IF c \in DOMAIN lookups
                    THEN IF dv \in DOMAIN lookups[c] THEN lookups[c][dv] ELSE NULL
                  ELSE IF c = driverCol THEN dv
                  ELSE grp.current[c]]]

\* `for i, gen := range rg.generators { row[i] = gen() }`: picks[c] is what the
\* own generator of column c returns when it is called in this row
RECURSIVE RunFKGenerators(_, _, _, _, _)
RunFKGenerators(i, picks, gl, groups, r) ==
  IF i > Len(fkColumns) THEN [row |-> r, groups |-> groups]
  ELSE LET col == fkColumns[i]
           gen == fkGenerators[i]
       IN IF gen.kind = "own"
            THEN RunFKGenerators(i + 1, picks, gl, groups, (col :> picks[col]) @@ r)
          ELSE IF gen.kind = "trigger"
            THEN LET grp == Trigger(groups[gen.grp], gl.groupsByDriver[gen.grp],
                                    gen.grp, picks[gen.grp])
                 IN RunFKGenerators(i + 1, picks, gl, [groups EXCEPT ![gen.grp] = grp],
                                    (col :> Current(grp, col)) @@ r)
          ELSE RunFKGenerators(i + 1, picks, gl, groups,
                               (col :> Current(groups[gen.grp], col)) @@ r)

FKInit ==
  /\ fkColumns \in Perms(FKColumnNames)
  /\ fkLookups \in LookupLists
  /\ fkGenerators = applyFKCorrelations(fkColumns, fkLookups)
  /\ fkGroups = [d \in {fkLookups[k].DriverColumn : k \in 1..Len(fkLookups)} |->
                   [ready |-> FALSE, current |-> <<>>]]
  /\ fkRow = <<>>
  /\ fkRowCount = 0
  /\ IdleExcept("fk")

\* GenerateRow: the table has no composite unique index, the first attempt is
\* returned
FKGenerateRow ==
  /\ fkRowCount < MaxRows
  /\ \E picks \in [FKColumnNames -> FKValues] :
       LET gl == GroupLookups(fkLookups, 1, [groupsByDriver |-> <<>>, derivedToDriver |-> <<>>])
           out == RunFKGenerators(1, picks, gl, fkGroups, <<>>)
       IN /\ fkRow' = out.row
          /\ fkGroups' = out.groups
  /\ fkRowCount' = fkRowCount + 1
  /\ UNCHANGED <<fkColumns, fkLookups, fkGenerators>>
  /\ UNCHANGED otherThanFK

FKNext == FKGenerateRow

SpecFKCorr == FKInit /\ [][FKNext]_vars

(***************************************************************************)
(* Same-table correlation: applyCorrelationGroup and GenerateRow for a     *)
(* table with one configured group and no unique index.                    *)
(***************************************************************************)
CorrColumnNames == {"x", "y", "z"}

\* the entities rg.faker can synthesize, and the value column col gets of one
Entities == {1, 2}
EntityValue(e, col) == StrV(<<DigitChar(e), col>>)

\* what the generator of a column outside the group returns
OwnValues == {StrV(<<"o">>), NULL}

\* group.Columns: two or more columns of the table, in the configured order
Groups ==
  {g \in UNION {[1..n -> CorrColumnNames] : n \in 2..Cardinality(CorrColumnNames)} :
     NoDuplicates(g)}

\* lines 53-59: whether a column of the group is nullable and not a primary key
AnyNullable(g, nullableCols) == \E i \in 1..Len(g) : g[i] \in nullableCols

\* wrapNullable around the generator of a column outside the group: v is what
\* the wrapped generator would return, NULL standing for rand.Float64() < 0.1
OwnValue(col, v) == IF col \in corrNullable THEN v ELSE StrV(<<"o">>)

\* lines 77-106: the first column of group.Columns gets the generator that
\* generates the group, every other member one that reads the state
applyCorrelationGroup(cols, g) ==
  [i \in 1..Len(cols) |->
     IF ~Contains(g, cols[i]) THEN "own"
     ELSE IF cols[i] = g[1] THEN "first"
     ELSE "read"]

\* state.values[colName]; a key the map does not hold reads as nil
ValueOf(st, colName) == IF colName \in DOMAIN st.values THEN st.values[colName] ELSE NULL

\* the generator of the first column: null says that rand.Float64() < 0.1,
\* e is the entity generateGroup draws
GenerateFirst(st, g, nullable, null, e) ==
  IF nullable /\ null
    THEN [values |-> [c \in DOMAIN st.values \cup Range(g) |->
                        IF c \in Range(g) THEN NULL ELSE st.values[c]],
          ready |-> TRUE]
    ELSE [values |-> [c \in DOMAIN st.values \cup Range(g) |->
                        IF c \in Range(g) THEN EntityValue(e, c) ELSE st.values[c]],
          ready |-> TRUE]

\* a reading generator that returns what the state holds, generated or not
ReadMemberUnchecked(st, colName) == [panic |-> FALSE, v |-> ValueOf(st, colName)]

\* the generator of every other member
ReadMember(st, colName) ==
  IF ~st.ready THEN [panic |-> TRUE, v |-> NULL]
  ELSE [panic |-> FALSE, v |-> ValueOf(st, colName)]

\* `for i, gen := range rg.generators { row[i] = gen() }` up to the first panic
RECURSIVE RunCorrGenerators(_, _, _)
RunCorrGenerators(i, draw, acc) ==
  IF i > Len(corrColumns) THEN acc
  ELSE LET col == corrColumns[i] IN
    IF corrGenerators[i] = "own"
      THEN RunCorrGenerators(i + 1, draw,
             [acc EXCEPT !.row = (col :> OwnValue(col, draw.own)) @@ @])
    ELSE IF corrGenerators[i] = "first"
      THEN LET st == GenerateFirst(acc.state, group, anyNullable, draw.null, draw.e)
           IN RunCorrGenerators(i + 1, draw,
                [acc EXCEPT !.state = st,
                            !.steps = @ + 1,
                            !.stepOf = [c \in Range(group) |-> acc.steps + 1],
                            !.row = (col :> ValueOf(st, col)) @@ @])
    ELSE LET rd == ReadMember(acc.state, col)
         IN IF rd.panic THEN [acc EXCEPT !.panic = TRUE]
            ELSE RunCorrGenerators(i + 1, draw, [acc EXCEPT !.row = (col :> rd.v) @@ @])

CorrInit ==
  /\ corrColumns \in Perms(CorrColumnNames)
  /\ group \in Groups
  /\ corrNullable \in SUBSET CorrColumnNames
  /\ anyNullable = AnyNullable(group, corrNullable)
  /\ corrGenerators = applyCorrelationGroup(corrColumns, group)
  /\ state = [values |-> <<>>, ready |-> FALSE]
  /\ steps = 0
  /\ stepOf = [c \in Range(group) |-> 0]
  /\ corrPc = "idle"
  /\ corrRow = <<>>
  /\ corrRowCount = 0
  /\ IdleExcept("corr")

\* GenerateRow: the row is returned, or a generator panics and the run ends
CorrGenerateRow ==
  /\ corrPc = "idle"
  /\ corrRowCount < MaxRows
  /\ \E draw \in [null : BOOLEAN, e : Entities, own : OwnValues] :
       LET out == RunCorrGenerators(1, draw,
                    [panic |-> FALSE, row |-> <<>>, state |-> state, steps |-> steps,
                     stepOf |-> stepOf])
       IN /\ state' = out.state
          /\ steps' = out.steps
          /\ stepOf' = out.stepOf
          /\ IF out.panic
               THEN /\ corrPc' = "panic"
                    /\ UNCHANGED <<corrRow, corrRowCount>>
               ELSE /\ corrRow' = out.row
                    /\ corrRowCount' = corrRowCount + 1
                    /\ UNCHANGED corrPc
  /\ UNCHANGED <<corrColumns, group, corrNullable, anyNullable, corrGenerators>>
  /\ UNCHANGED otherThanCorr

CorrNext == CorrGenerateRow

SpecCorr == CorrInit /\ [][CorrNext]_vars

(***************************************************************************)
(* seedTable and seedTableLoadData: the producer, the worker pool and the  *)
(* channels batches and errCh. The two functions differ only in the        *)
(* statement a worker executes (insertBatch or loadBatch).                 *)
(***************************************************************************)
\* the largest cfg.Workers
NumWorkers == 2
\* the most batches a complete run generates
MaxBatches == 4
\* cfg.RowsPerTable[table.Name] when SeedAll reaches the table
MaxSeedRows == 5

Workers == 1..NumWorkers

\* cfg.BatchSize
BatchSizes == {1, 2, 3}

\* what seedTable is called with: the run truncates (and the table is empty) or
\* is incremental with fewer rows than the target
SeedRuns ==
  {r \in [Clear : BOOLEAN, target : {MaxSeedRows}, current : 0..(MaxSeedRows - 1),
          BatchSize : BatchSizes, Workers : Workers] :
     r.Clear => r.current = 0}

\* SeedAll lines 96-127: cfg.RowsPerTable[table.Name] when seedTable is called
RowsToSeed(run) == IF run.Clear THEN run.target ELSE run.target - run.current

\* the batches a complete run generates
BatchCount(run) ==
  (RowsToSeed(run) + run.BatchSize - 1) \div run.BatchSize

\* a batch of batchSize rows whatever remains
SizeIgnoringRemaining(size, rest) == size

\* `size := batchSize; if size > remaining { size = remaining }`
BatchRows(size, rest) == IF size > rest THEN rest ELSE size

\* cap(batches) = cfg.Workers*2
BatchesCap == stRun.Workers * 2

\* the final select on errCh that never finds an error
OutcomeIgnoringErrors(ch) == "nil"

\* the final select on errCh: `case err := <-errCh: return err`, `default:` nil
Outcome(ch) == IF Len(ch) > 0 THEN "error" ELSE "nil"

\* a wait that ends while workers still run
WaitDoneAtOnce(pcs) == TRUE

\* wg.Wait() returns: every started worker has run its deferred wg.Done()
WaitDone(pcs) == \A w \in DOMAIN pcs : pcs[w] \in {"off", "exited"}

\* a call of gen.GenerateRow that is never left
StayInGenerateRow(inside, who) == inside

\* gen.GenerateRow returns to its caller
LeaveGenerateRow(inside, who) == inside \ {who}

\* a select without the case `<-ctx.Done()`
CancelNeverSeen(done) == FALSE

\* the select's `case <-ctx.Done()` can be taken
CancelSeen(done) == done

\* `for b := range batches`: the batch received leaves the channel
ReceiveFrom(ch) == Tail(ch)

SeedTableInit ==
  /\ stPc = "prepare"
  /\ stRun \in SeedRuns
  /\ BatchCount(stRun) <= MaxBatches
  /\ totalRows = 0
  /\ batchSize = 0
  /\ remaining = 0
  /\ pending = 0
  /\ generating = {}
  /\ batches = <<>>
  /\ batchesClosed = FALSE
  /\ ctxDone = FALSE
  /\ errCh = <<>>
  /\ errOnce = "fresh"
  /\ wpc = [w \in Workers |-> "off"]
  /\ wBatch = [w \in Workers |-> 0]
  /\ stReturn = "none"
  /\ nextBatch = 1
  /\ lateBatches = {}
  /\ insertedBatches = {}
  /\ cancelSignals = 0
  /\ signalled = <<>>
  /\ prepFailed = FALSE
  /\ enqueued = <<>>
  /\ insertedBy = <<>>
  /\ IdleExcept("seedTable")

\* up to the start of the workers: fetchMaxPK or NewRowGenerator fails, the
\* table has no column to generate, or totalRows and batchSize are set and the
\* pool is started
Prepare(outcome) ==
  /\ stPc = "prepare"
  /\ IF outcome = "error"
       THEN /\ stPc' = "returned" /\ stReturn' = "error" /\ prepFailed' = TRUE
            /\ UNCHANGED <<totalRows, batchSize, remaining, wpc>>
     ELSE IF outcome = "nocolumns"
       THEN /\ stPc' = "returned" /\ stReturn' = "nil"
            /\ UNCHANGED <<totalRows, batchSize, remaining, wpc, prepFailed>>
       ELSE /\ stPc' = "produce"
            /\ totalRows' = RowsToSeed(stRun)
            /\ batchSize' = IF stRun.BatchSize > RowsToSeed(stRun) THEN RowsToSeed(stRun)
                            ELSE stRun.BatchSize
            /\ remaining' = RowsToSeed(stRun)
            /\ wpc' = [w \in Workers |-> IF w <= stRun.Workers THEN "recv" ELSE "off"]
            /\ UNCHANGED <<stReturn, prepFailed>>
  /\ UNCHANGED <<stRun, pending, generating, batches, batchesClosed, ctxDone, errCh, errOnce,
                 wBatch, nextBatch, lateBatches, insertedBatches, cancelSignals, signalled,
                 enqueued, insertedBy>>
  /\ UNCHANGED otherThanSeedTable

\* `for remaining > 0`: the producer starts to fill rows with gen.GenerateRow()
ProducerGenerate ==
  /\ stPc = "produce" /\ remaining > 0
  /\ generating' = generating \cup {"producer"}
  /\ stPc' = "generate"
  /\ UNCHANGED <<stRun, totalRows, batchSize, remaining, pending, batches, batchesClosed,
                 ctxDone, errCh, errOnce, wpc, wBatch, stReturn, nextBatch, lateBatches,
                 insertedBatches, cancelSignals, signalled, prepFailed, enqueued, insertedBy>>
  /\ UNCHANGED otherThanSeedTable

\* the rows of the batch are generated; the producer is at its select
ProducerGenerated ==
  /\ stPc = "generate"
  /\ pending' = BatchRows(batchSize, remaining)
  /\ generating' = LeaveGenerateRow(generating, "producer")
  /\ stPc' = "select"
  /\ UNCHANGED <<stRun, totalRows, batchSize, remaining, batches, batchesClosed,
                 ctxDone, errCh, errOnce, wpc, wBatch, stReturn, nextBatch, lateBatches,
                 insertedBatches, cancelSignals, signalled, prepFailed, enqueued, insertedBy>>
  /\ UNCHANGED otherThanSeedTable

\* the producer's select takes `case batches <- batch{rows: rows}`; a select
\* with several ready cases takes any of them, so a cancelled ctx does not
\* keep the send from being taken while the channel has room
ProducerSend ==
  /\ stPc = "select"
  /\ Len(batches) < BatchesCap
  /\ batches' = Append(batches, nextBatch)
  /\ lateBatches' = IF ctxDone THEN lateBatches \cup {nextBatch} ELSE lateBatches
  /\ nextBatch' = nextBatch + 1
  /\ enqueued' = Append(enqueued, pending)
  /\ insertedBy' = Append(insertedBy, <<>>)
  /\ remaining' = remaining - pending
  /\ pending' = 0
  /\ stPc' = "produce"
  /\ UNCHANGED <<stRun, totalRows, batchSize, generating, batchesClosed, ctxDone, errCh,
                 errOnce, wpc, wBatch, stReturn, insertedBatches, cancelSignals, signalled,
                 prepFailed>>
  /\ UNCHANGED otherThanSeedTable

\* the producer's select takes `case <-ctx.Done()`
ProducerCancelled ==
  /\ stPc = "select"
  /\ CancelSeen(ctxDone)
  /\ remaining' = 0
  /\ pending' = 0
  /\ stPc' = "produce"
  /\ UNCHANGED <<stRun, totalRows, batchSize, generating, batches, batchesClosed, ctxDone,
                 errCh, errOnce, wpc, wBatch, stReturn, nextBatch, lateBatches,
                 insertedBatches, cancelSignals, signalled, prepFailed, enqueued, insertedBy>>
  /\ UNCHANGED otherThanSeedTable

\* close(batches)
ProducerClose ==
  /\ stPc = "produce" /\ ~(remaining > 0)
  /\ batchesClosed' = TRUE
  /\ stPc' = "wait"
  /\ UNCHANGED <<stRun, totalRows, batchSize, remaining, pending, generating, batches,
                 ctxDone, errCh, errOnce, wpc, wBatch, stReturn, nextBatch, lateBatches,
                 insertedBatches, cancelSignals, signalled, prepFailed, enqueued, insertedBy>>
  /\ UNCHANGED otherThanSeedTable

\* wg.Wait()
ProducerWait ==
  /\ stPc = "wait"
  /\ WaitDone(wpc)
  /\ stPc' = "decide"
  /\ UNCHANGED <<stRun, totalRows, batchSize, remaining, pending, generating, batches,
                 batchesClosed, ctxDone, errCh, errOnce, wpc, wBatch, stReturn, nextBatch,
                 lateBatches, insertedBatches, cancelSignals, signalled, prepFailed,
                 enqueued, insertedBy>>
  /\ UNCHANGED otherThanSeedTable

\* the final select on errCh, and the return with its deferred cancel()
ProducerReturn ==
  /\ stPc = "decide"
  /\ stReturn' = Outcome(errCh)
  /\ errCh' = IF Len(errCh) > 0 THEN Tail(errCh) ELSE errCh
  /\ ctxDone' = TRUE
  /\ stPc' = "returned"
  /\ UNCHANGED <<stRun, totalRows, batchSize, remaining, pending, generating, batches,
                 batchesClosed, errOnce, wpc, wBatch, nextBatch, lateBatches,
                 insertedBatches, cancelSignals, signalled, prepFailed, enqueued, insertedBy>>
  /\ UNCHANGED otherThanSeedTable

\* `for b := range batches`: a batch is received, or the channel is closed and
\* empty and the worker exits
WorkerReceive(w) ==
  /\ stPc # "off" /\ wpc[w] = "recv"
  /\ IF Len(batches) > 0
       THEN /\ wBatch' = [wBatch EXCEPT ![w] = Head(batches)]
            /\ batches' = ReceiveFrom(batches)
            /\ wpc' = [wpc EXCEPT ![w] = "insert"]
       ELSE /\ batchesClosed
            /\ wpc' = [wpc EXCEPT ![w] = "exited"]
            /\ UNCHANGED <<batches, wBatch>>
  /\ UNCHANGED <<stPc, stRun, totalRows, batchSize, remaining, pending, generating,
                 batchesClosed, ctxDone, errCh, errOnce, stReturn,
                 nextBatch, lateBatches, insertedBatches, cancelSignals, signalled,
                 prepFailed, enqueued, insertedBy>>
  /\ UNCHANGED otherThanSeedTable

\* insertBatch / loadBatch executes its statement with b.rows and returns err
\* or nil
WorkerInsert(w, failed) ==
  /\ wpc[w] = "insert"
  /\ insertedBatches' = insertedBatches \cup {wBatch[w]}
  /\ insertedBy' = [insertedBy EXCEPT ![wBatch[w]] = Append(@, w)]
  /\ wpc' = [wpc EXCEPT ![w] = IF failed THEN "once" ELSE "recv"]
  /\ UNCHANGED <<stPc, stRun, totalRows, batchSize, remaining, pending, generating, batches,
                 batchesClosed, ctxDone, errCh, errOnce, wBatch,
                 stReturn, nextBatch, lateBatches, cancelSignals, signalled, prepFailed,
                 enqueued>>
  /\ UNCHANGED otherThanSeedTable

\* errOnce.Do(...): the first caller runs `errCh <- err`; a later caller waits
\* until the first has left Do, then returns without running anything
WorkerOnce(w) ==
  /\ wpc[w] = "once"
  /\ \/ /\ errOnce = "fresh"
        /\ Len(errCh) < 1
        /\ errCh' = Append(errCh, w)
        /\ errOnce' = "running"
        /\ wpc' = [wpc EXCEPT ![w] = "cancel"]
        /\ signalled' = Append(signalled, w)
     \/ /\ errOnce = "done"
        /\ wpc' = [wpc EXCEPT ![w] = "exited"]
        /\ signalled' = Append(signalled, w)
        /\ UNCHANGED <<errCh, errOnce>>
  /\ UNCHANGED <<stPc, stRun, totalRows, batchSize, remaining, pending, generating, batches,
                 batchesClosed, ctxDone, wBatch, stReturn,
                 nextBatch, lateBatches, insertedBatches, cancelSignals, prepFailed,
                 enqueued, insertedBy>>
  /\ UNCHANGED otherThanSeedTable

\* cancel() inside errOnce.Do, then `return`
WorkerCancel(w) ==
  /\ wpc[w] = "cancel"
  /\ ctxDone' = TRUE
  /\ cancelSignals' = cancelSignals + 1
  /\ errOnce' = "done"
  /\ wpc' = [wpc EXCEPT ![w] = "exited"]
  /\ UNCHANGED <<stPc, stRun, totalRows, batchSize, remaining, pending, generating, batches,
                 batchesClosed, errCh, wBatch, stReturn,
                 nextBatch, lateBatches, insertedBatches, signalled, prepFailed,
                 enqueued, insertedBy>>
  /\ UNCHANGED otherThanSeedTable

\* the steps of the goroutine that runs seedTable
ProducerStep ==
  \/ \E outcome \in {"error", "nocolumns", "start"} : Prepare(outcome)
  \/ ProducerGenerate
  \/ ProducerGenerated
  \/ ProducerSend
  \/ ProducerCancelled
  \/ ProducerClose
  \/ ProducerWait
  \/ ProducerReturn

\* the steps of worker w
WorkerStep(w) ==
  \/ WorkerReceive(w)
  \/ \E failed \in BOOLEAN : WorkerInsert(w, failed)
  \/ WorkerOnce(w)
  \/ WorkerCancel(w)

SeedTableNext ==
  \/ \E outcome \in {"error", "nocolumns", "start"} : Prepare(outcome)
  \/ ProducerGenerate
  \/ ProducerGenerated
  \/ ProducerSend
  \/ ProducerCancelled
  \/ ProducerClose
  \/ ProducerWait
  \/ ProducerReturn
  \/ \E w \in Workers : WorkerReceive(w)
  \/ \E w \in Workers : \E failed \in BOOLEAN : WorkerInsert(w, failed)
  \/ \E w \in Workers : WorkerOnce(w)
  \/ \E w \in Workers : WorkerCancel(w)

SpecSeedTable == SeedTableInit /\ [][SeedTableNext]_vars

\* the Go scheduler lets every goroutine that can take a step take one, and
\* every statement a worker executes returns
FairSpecSeedTable ==
  /\ SeedTableInit
  /\ [][SeedTableNext]_vars
  /\ WF_vars(ProducerStep)
  /\ \A w \in Workers : WF_vars(WorkerStep(w))

(***************************************************************************)
(* SeedAll. Every table has one primary key column, which the FK columns   *)
(* of the other tables reference, so an FK cache key "table.column" is     *)
(* modelled by the referenced table. seedTable / seedTableLoadData is one  *)
(* call that succeeds or fails.                                            *)
(***************************************************************************)
\* len(cfg.Tables)
NumSeedTables == 2
\* cfg.RowsPerTable of every table
TargetRows == 2

SeedTableNames == 1..NumSeedTables

\* the secondary indexes of a table that has some, all of them droppable
SecondaryIndexes == {"idx"}

\* cfg.Tables comes in resolved order: a table references earlier tables and
\* possibly itself
SeedSchemas ==
  {f \in [SeedTableNames -> [refs : SUBSET SeedTableNames, atTarget : BOOLEAN,
                             hasIndexes : BOOLEAN]] :
     \A t \in SeedTableNames : \A r \in f[t].refs : r <= t}

\* the configurations, without those that differ in a field SeedAll never reads
SeedConfigs ==
  {c \in [LoadData : BOOLEAN, localInfile : {"on", "off", "unreadable"}, Clear : BOOLEAN,
          DeferIndexes : BOOLEAN, FKSampleSize : {0, 1}] :
     ~c.LoadData => c.localInfile = "on"}

\* a check of @@local_infile that lets every run pass
InfileCheckSkipped(c) == TRUE

\* lines 67-76: the run may go on
InfileCheck(c) == ~c.LoadData \/ c.localInfile = "on"

\* a scan that keeps the index of the first table with an FK to a key
RECURSIVE computeFirstConsumers(_, _, _)
computeFirstConsumers(tbls, i, last) ==
  IF i > Len(tbls) THEN last
  ELSE computeFirstConsumers(tbls, i + 1,
         [k \in DOMAIN last \cup tbls[i].refs |-> IF k \in DOMAIN last THEN last[k] ELSE i])

\* computeLastConsumers: referenced table -> index of the last table with an FK to it
RECURSIVE computeLastConsumers(_, _, _)
computeLastConsumers(tbls, i, last) ==
  IF i > Len(tbls) THEN last
  ELSE computeLastConsumers(tbls, i + 1,
         [k \in DOMAIN last \cup tbls[i].refs |-> IF k \in tbls[i].refs THEN i ELSE last[k]])

lastConsumer == computeLastConsumers(saTables, 1, <<>>)

\* an eviction that also takes the entries a later table consumes
EvictedEarly(last, i) == {k \in DOMAIN last : last[k] >= i}

\* lines 239-244: the keys deleted from fkCache after the table at index i
Evicted(last, i) == {k \in DOMAIN last : last[k] = i}

\* a sample that is never cut down to k values
SampleLenUnbounded(n, k) == n

\* len(reservoirSample(values, maxSample)) for n values
SampleLen(n, k) == IF k <= 0 \/ n <= k THEN n ELSE k

\* a fetch that returns no value
fetchColumnValuesEmpty(t) == 0

\* fetchColumnValues(table's primary key) when it succeeds
fetchColumnValues(t) == SampleLen(rowsIn[t], saCfg.FKSampleSize)

\* detectFKCorrelations returns something: two FK columns, to different tables,
\* and the parent of one has an FK to the parent of the other
HasCorrelations(t) ==
  \E a \in saTables[t].refs : \E b \in saTables[t].refs :
    a # b /\ a \in saTables[b].refs

\* where the loop goes on after the table at index i
AfterTable(i) == IF i + 1 > Len(saTables) THEN "enable" ELSE "begin"

\* after seedTable returned nil the dropped indexes are never restored
AfterSeedNoRestore(dropped) == "cachepk"

\* lines 220-226: after seedTable returned nil
AfterSeed(dropped) == IF dropped # {} THEN "restore" ELSE "cachepk"

\* an error that is recorded while the loop starts over
ErrorWithoutReturn ==
  /\ saPc' = "begin"
  /\ saReturn' = "error"

\* `return fmt.Errorf(...)` / `return err`
ReturnError ==
  /\ saPc' = "returned"
  /\ saReturn' = "error"

MarkDone(step) == saDone' = [saDone EXCEPT ![saIdx] = @ \cup {step}]

SeedAllInit ==
  /\ saCfg \in SeedConfigs
  /\ saTables \in SeedSchemas
  \* rows that TRUNCATE removes and indexes that are never fetched are left out
  /\ saCfg.Clear => \A t \in SeedTableNames : ~saTables[t].atTarget
  /\ ~saCfg.DeferIndexes => \A t \in SeedTableNames : ~saTables[t].hasIndexes
  /\ saPc = "infile"
  /\ saIdx = 0
  /\ saReturn = "none"
  /\ checksOff = {}
  /\ mutated = FALSE
  /\ droppedIndexes = {}
  /\ rowsIn = [t \in SeedTableNames |-> IF saTables[t].atTarget THEN TargetRows ELSE 0]
  /\ fkCache = <<>>
  /\ tableFKValues = <<>>
  /\ saDone = [t \in SeedTableNames |-> {}]
  /\ saDropped = [t \in SeedTableNames |-> {}]
  /\ saRestoreIssued = [t \in SeedTableNames |-> {}]
  /\ IdleExcept("seedAll")

\* lines 67-76: the check of @@local_infile
CheckLocalInfile ==
  /\ saPc = "infile"
  /\ IF InfileCheck(saCfg)
       THEN saPc' = "disable" /\ UNCHANGED saReturn
       ELSE ReturnError
  /\ UNCHANGED <<saCfg, saTables, saIdx, checksOff, mutated, droppedIndexes, rowsIn,
                 fkCache, tableFKValues, saDone, saDropped, saRestoreIssued>>
  /\ UNCHANGED otherThanSeedAll

\* lines 78-93: SET FOREIGN_KEY_CHECKS=0, SET UNIQUE_CHECKS=0; failed names the
\* statement that fails, if any
DisableChecks(failed) ==
  /\ saPc = "disable"
  /\ IF failed = "fk"
       THEN /\ ReturnError
            /\ UNCHANGED <<checksOff, mutated, saIdx>>
     ELSE IF failed = "unique"
       THEN /\ ReturnError
            /\ checksOff' = {"fk"}
            /\ mutated' = TRUE
            /\ UNCHANGED saIdx
       ELSE /\ checksOff' = {"fk", "unique"}
            /\ mutated' = TRUE
            /\ saIdx' = 1
            /\ saPc' = AfterTable(0)
            /\ UNCHANGED saReturn
  /\ UNCHANGED <<saCfg, saTables, droppedIndexes, rowsIn, fkCache, tableFKValues, saDone,
                 saDropped, saRestoreIssued>>
  /\ UNCHANGED otherThanSeedAll

\* lines 96-127: TRUNCATE, or the row count and, for a table at its target, the
\* caching of its primary key and `continue`
BeginTable(failed) ==
  /\ saPc = "begin"
  /\ IF failed
       THEN /\ ReturnError
            /\ UNCHANGED <<saIdx, mutated, rowsIn, fkCache, saDone>>
     ELSE IF saCfg.Clear
       THEN /\ rowsIn' = [rowsIn EXCEPT ![saIdx] = 0]
            /\ mutated' = TRUE
            /\ MarkDone("begin")
            /\ saPc' = "drop"
            /\ UNCHANGED <<saIdx, saReturn, fkCache>>
     ELSE IF rowsIn[saIdx] >= TargetRows
       THEN /\ fkCache' = (saIdx :> fetchColumnValues(saIdx)) @@ fkCache
            /\ MarkDone("skip")
            /\ saPc' = AfterTable(saIdx)
            /\ saIdx' = saIdx + 1
            /\ UNCHANGED <<saReturn, mutated, rowsIn>>
       ELSE /\ MarkDone("begin")
            /\ saPc' = "drop"
            /\ UNCHANGED <<saIdx, saReturn, mutated, rowsIn, fkCache>>
  /\ droppedIndexes' = {}
  /\ UNCHANGED <<saCfg, saTables, checksOff, tableFKValues, saDropped, saRestoreIssued>>
  /\ UNCHANGED otherThanSeedAll

\* lines 129-154: the secondary indexes are fetched and dropped
DropIndexes(failed) ==
  /\ saPc = "drop"
  /\ IF ~saCfg.DeferIndexes
       THEN /\ ~failed
            /\ saPc' = "gather"
            /\ UNCHANGED <<saReturn, mutated, droppedIndexes, saDone, saDropped>>
     ELSE IF failed
       THEN /\ ReturnError
            /\ UNCHANGED <<mutated, droppedIndexes, saDone, saDropped>>
     ELSE IF ~saTables[saIdx].hasIndexes
       THEN /\ saPc' = "gather"
            /\ UNCHANGED <<saReturn, mutated, droppedIndexes, saDone, saDropped>>
       ELSE /\ droppedIndexes' = SecondaryIndexes
            /\ saDropped' = [saDropped EXCEPT ![saIdx] = SecondaryIndexes]
            /\ mutated' = TRUE
            /\ MarkDone("drop")
            /\ saPc' = "gather"
            /\ UNCHANGED saReturn
  /\ UNCHANGED <<saCfg, saTables, saIdx, checksOff, rowsIn, fkCache, tableFKValues,
                 saRestoreIssued>>
  /\ UNCHANGED otherThanSeedAll

\* lines 156-198: the FK values of the table's columns, from the cache or
\* fetched and cached, then the FK lookups of its correlated columns
GatherFKValues(failed) ==
  /\ saPc = "gather"
  /\ LET refs == saTables[saIdx].refs
         misses == refs \ DOMAIN fkCache
         filled == [r \in DOMAIN fkCache \cup refs |->
                      IF r \in DOMAIN fkCache THEN fkCache[r] ELSE fetchColumnValues(r)]
     IN IF failed
          THEN /\ misses # {} \/ HasCorrelations(saIdx)
               /\ ReturnError
               /\ \E got \in SUBSET misses :
                    /\ (got = misses) => HasCorrelations(saIdx)
                    /\ fkCache' = [r \in DOMAIN fkCache \cup got |-> filled[r]]
               /\ UNCHANGED <<tableFKValues, saDone>>
          ELSE /\ fkCache' = filled
               /\ tableFKValues' = [r \in refs |-> filled[r]]
               /\ MarkDone("gather")
               /\ saPc' = "seed"
               /\ UNCHANGED saReturn
  /\ UNCHANGED <<saCfg, saTables, saIdx, checksOff, mutated, droppedIndexes, rowsIn,
                 saDropped, saRestoreIssued>>
  /\ UNCHANGED otherThanSeedAll

\* lines 200-218: seedTable / seedTableLoadData; when it fails after n rows the
\* dropped indexes are restored, whatever that gives, and the error is returned
SeedTableCall(failed, n) ==
  /\ saPc = "seed"
  /\ mutated' = TRUE
  /\ IF failed
       THEN /\ n < TargetRows - rowsIn[saIdx]
            /\ rowsIn' = [rowsIn EXCEPT ![saIdx] = @ + n]
            /\ saRestoreIssued' = [saRestoreIssued EXCEPT ![saIdx] = droppedIndexes]
            /\ ReturnError
            /\ UNCHANGED saDone
       ELSE /\ n = TargetRows - rowsIn[saIdx]
            /\ rowsIn' = [rowsIn EXCEPT ![saIdx] = @ + n]
            /\ MarkDone("seed")
            /\ saPc' = AfterSeed(droppedIndexes)
            /\ UNCHANGED <<saReturn, saRestoreIssued>>
  /\ UNCHANGED <<saCfg, saTables, saIdx, checksOff, droppedIndexes, fkCache,
                 tableFKValues, saDropped>>
  /\ UNCHANGED otherThanSeedAll

\* lines 220-226: the dropped indexes are restored
RestoreIndexes(failed) ==
  /\ saPc = "restore"
  /\ saRestoreIssued' = [saRestoreIssued EXCEPT ![saIdx] = droppedIndexes]
  /\ IF failed
       THEN ReturnError /\ UNCHANGED saDone
       ELSE MarkDone("restore") /\ saPc' = "cachepk" /\ UNCHANGED saReturn
  /\ UNCHANGED <<saCfg, saTables, saIdx, checksOff, mutated, droppedIndexes, rowsIn,
                 fkCache, tableFKValues, saDropped>>
  /\ UNCHANGED otherThanSeedAll

\* lines 228-245: the primary key values are cached, then the cache entries
\* whose last consumer is this table are evicted
CachePKAndEvict(failed) ==
  /\ saPc = "cachepk"
  /\ IF failed
       THEN /\ ReturnError
            /\ UNCHANGED <<saIdx, fkCache, saDone>>
       ELSE /\ LET cached == (saIdx :> fetchColumnValues(saIdx)) @@ fkCache
                   keys == DOMAIN cached \ Evicted(lastConsumer, saIdx)
               IN fkCache' = [k \in keys |-> cached[k]]
            /\ MarkDone("cachepk")
            /\ saPc' = AfterTable(saIdx)
            /\ saIdx' = saIdx + 1
            /\ UNCHANGED saReturn
  /\ UNCHANGED <<saCfg, saTables, checksOff, mutated, droppedIndexes, rowsIn,
                 tableFKValues, saDropped, saRestoreIssued>>
  /\ UNCHANGED otherThanSeedAll

\* lines 247-251: the checks are re-enabled and nil is returned
EnableChecks ==
  /\ saPc = "enable"
  /\ checksOff' = {}
  /\ saPc' = "returned"
  /\ saReturn' = "nil"
  /\ UNCHANGED <<saCfg, saTables, saIdx, mutated, droppedIndexes, rowsIn, fkCache,
                 tableFKValues, saDone, saDropped, saRestoreIssued>>
  /\ UNCHANGED otherThanSeedAll

SeedAllNext ==
  \/ CheckLocalInfile
  \/ \E failed \in {"none", "fk", "unique"} : DisableChecks(failed)
  \/ \E failed \in BOOLEAN : BeginTable(failed)
  \/ \E failed \in BOOLEAN : DropIndexes(failed)
  \/ \E failed \in BOOLEAN : GatherFKValues(failed)
  \/ \E failed \in BOOLEAN : \E n \in 0..TargetRows : SeedTableCall(failed, n)
  \/ \E failed \in BOOLEAN : RestoreIndexes(failed)
  \/ \E failed \in BOOLEAN : CachePKAndEvict(failed)
  \/ EnableChecks

SpecSeedAll == SeedAllInit /\ [][SeedAllNext]_vars

(***************************************************************************)
(* reservoirSample. An item of the reservoir is represented by the         *)
(* position of values it was copied from; the slice returned holds the     *)
(* values at these positions.                                              *)
(***************************************************************************)
\* longest input slice
MaxItems == 4

\* the values of the column; equal values at different positions occur
ItemValues == {"u", "v"}

\* a reservoir whose slots all start with the first value
InitialReservoirRepeated(k) == [slot \in 1..k |-> 1]

\* `copy(reservoir, values[:maxSample])`
InitialReservoir(k) == [slot \in 1..k |-> slot]

\* the items of a reservoir
ItemsOf(res, values) == [slot \in 1..Len(res) |-> values[res[slot]]]

ReservoirInit ==
  /\ rsValues \in UNION {[1..n -> ItemValues] : n \in 0..MaxItems}
  /\ maxSample \in -1..MaxItems
  /\ reservoir = <<>>
  /\ rsI = 0
  /\ rsPc = "entry"
  /\ rsResult = <<>>
  /\ IdleExcept("reservoir")

\* lines 424-428: values is returned as it is, or the reservoir is filled with
\* the first maxSample values
ReservoirEnter ==
  /\ rsPc = "entry"
  /\ IF maxSample <= 0 \/ Len(rsValues) <= maxSample
       THEN /\ rsResult' = rsValues
            /\ rsPc' = "done"
            /\ UNCHANGED <<reservoir, rsI>>
       ELSE /\ reservoir' = InitialReservoir(maxSample)
            /\ rsI' = maxSample
            /\ rsPc' = "loop"
            /\ UNCHANGED rsResult
  /\ UNCHANGED <<rsValues, maxSample>>
  /\ UNCHANGED otherThanReservoir

\* one iteration of the loop: j is what rand.IntN(i + 1) returns
ReservoirStep(j) ==
  /\ rsPc = "loop"
  /\ rsI < Len(rsValues)
  /\ j \in 0..rsI
  /\ reservoir' = IF j < maxSample THEN [reservoir EXCEPT ![j + 1] = rsI + 1] ELSE reservoir
  /\ rsI' = rsI + 1
  /\ UNCHANGED <<rsValues, maxSample, rsPc, rsResult>>
  /\ UNCHANGED otherThanReservoir

\* `return reservoir`
ReservoirReturn ==
  /\ rsPc = "loop"
  /\ rsI >= Len(rsValues)
  /\ rsResult' = ItemsOf(reservoir, rsValues)
  /\ rsPc' = "done"
  /\ UNCHANGED <<rsValues, maxSample, reservoir, rsI>>
  /\ UNCHANGED otherThanReservoir

ReservoirNext ==
  \/ ReservoirEnter
  \/ \E j \in 0..(MaxItems - 1) : ReservoirStep(j)
  \/ ReservoirReturn

SpecReservoir == ReservoirInit /\ [][ReservoirNext]_vars

(***************************************************************************)
(* filterFKBackingIndexes and indexBacksFK. An index is its Name and the   *)
(* names of its columns; the names of the indexes of a table differ.       *)
(***************************************************************************)
\* len(indexes) at most
MaxIndexes == 2
\* len(fkColSets) at most
MaxFKColSets == 2

\* column names, two of which differ only in case
IndexColumnNames == {"a", "A", "b"}

\* the column lists of an index or of an FK constraint
ColumnLists ==
  {<<"a">>, <<"A">>, <<"b">>, <<"a", "b">>, <<"A", "b">>, <<"b", "a">>}

\* strings.EqualFold on the column names
EqualFold(x, y) ==
  LET lower(c) == IF c = "A" THEN "a" ELSE c IN lower(x) = lower(y)

\* indexBacksFK
indexBacksFK(idx, fkCols) ==
  IF Len(idx.Columns) < Len(fkCols) THEN FALSE
  ELSE \A i \in 1..Len(fkCols) : EqualFold(idx.Columns[i], fkCols[i])

\* the positions, in order, of the indexes that back fkCols
RECURSIVE backersOf(_, _, _)
backersOf(idxs, fkCols, j) ==
  IF j > Len(idxs) THEN <<>>
  ELSE (IF indexBacksFK(idxs[j], fkCols) THEN <<j>> ELSE <<>>)
         \o backersOf(idxs, fkCols, j + 1)

\* an index is kept as soon as it is one of the backers of an FK
HasBacker(backers) == Len(backers) >= 1

\* `len(fk.backers) == 1`
SoleBacker(backers) == Len(backers) = 1

IndexFilterInit ==
  /\ fiIndexes \in
       {f \in UNION {[1..n -> [Name : 1..MaxIndexes, Columns : ColumnLists]] :
                       n \in 0..MaxIndexes} :
          \A j \in DOMAIN f : f[j].Name = j}
  /\ fkColSets \in UNION {[1..n -> ColumnLists] : n \in 0..MaxFKColSets}
  /\ fiPc = "enter"
  /\ fiI = 0
  /\ fks = <<>>
  /\ mustKeep = {}
  /\ droppable = <<>>
  /\ kept = <<>>
  /\ IdleExcept("indexFilter")

\* `if len(fkColSets) == 0 { return indexes, nil }`
FilterEnter ==
  /\ fiPc = "enter"
  /\ IF Len(fkColSets) = 0
       THEN /\ droppable' = fiIndexes
            /\ fiPc' = "done"
            /\ UNCHANGED fiI
       ELSE /\ fiPc' = "count"
            /\ fiI' = 1
            /\ UNCHANGED droppable
  /\ UNCHANGED <<fiIndexes, fkColSets, fks, mustKeep, kept>>
  /\ UNCHANGED otherThanIndexFilter

\* one iteration of `for i, cols := range fkColSets`
CountBackers ==
  /\ fiPc = "count"
  /\ fks' = Append(fks, backersOf(fiIndexes, fkColSets[fiI], 1))
  /\ IF fiI = Len(fkColSets)
       THEN fiPc' = "mark" /\ fiI' = 1
       ELSE fiPc' = "count" /\ fiI' = fiI + 1
  /\ UNCHANGED <<fiIndexes, fkColSets, mustKeep, droppable, kept>>
  /\ UNCHANGED otherThanIndexFilter

\* one iteration of `for _, fk := range fks`
MarkMustKeep ==
  /\ fiPc = "mark"
  /\ mustKeep' = IF SoleBacker(fks[fiI]) THEN mustKeep \cup {fks[fiI][1]} ELSE mustKeep
  /\ IF fiI = Len(fks)
       THEN /\ fiI' = 1
            /\ fiPc' = IF Len(fiIndexes) = 0 THEN "done" ELSE "split"
       ELSE fiPc' = "mark" /\ fiI' = fiI + 1
  /\ UNCHANGED <<fiIndexes, fkColSets, fks, droppable, kept>>
  /\ UNCHANGED otherThanIndexFilter

\* one iteration of `for i, idx := range indexes`
SplitIndexes ==
  /\ fiPc = "split"
  /\ IF fiI \in mustKeep
       THEN kept' = Append(kept, fiIndexes[fiI]) /\ UNCHANGED droppable
       ELSE droppable' = Append(droppable, fiIndexes[fiI]) /\ UNCHANGED kept
  /\ IF fiI = Len(fiIndexes)
       THEN fiPc' = "done" /\ UNCHANGED fiI
       ELSE fiPc' = "split" /\ fiI' = fiI + 1
  /\ UNCHANGED <<fiIndexes, fkColSets, fks, mustKeep>>
  /\ UNCHANGED otherThanIndexFilter

IndexFilterNext ==
  \/ FilterEnter
  \/ CountBackers
  \/ MarkMustKeep
  \/ SplitIndexes

SpecIndexFilter == IndexFilterInit /\ [][IndexFilterNext]_vars

(***************************************************************************)
(* buildDropStatement, buildRestoreStatement and the two ALTER TABLE       *)
(* statements as the database reads them. A name is the sequence of its    *)
(* characters and a statement is the sequence of the pieces the format     *)
(* strings put around the names; a prefix length is its decimal text, and  *)
(* "NULL" stands for a SubPart that is not Valid.                          *)
(***************************************************************************)
\* len(indexes) at most
MaxDropped == 2

\* the backtick character
Backtick == "BACKTICK"

\* index names and column names; MySQL admits a backtick in an identifier
DroppedIndexNames == {<<"i">>, <<"j">>, <<"i", Backtick>>}
TableColumnNames == {<<"c">>, <<"d">>, <<"c", Backtick>>}
SubParts == {"NULL", "3"}

\* the column lists of the dropped indexes
IndexColumnLists ==
  {<<[Name |-> <<"c">>, SubPart |-> "NULL"]>>,
   <<[Name |-> <<"c">>, SubPart |-> "3"]>>,
   <<[Name |-> <<"c">>, SubPart |-> "NULL"], [Name |-> <<"d">>, SubPart |-> "3"]>>,
   <<[Name |-> <<"d">>, SubPart |-> "3"], [Name |-> <<"c">>, SubPart |-> "NULL"]>>,
   <<[Name |-> <<"c", Backtick>>, SubPart |-> "NULL"]>>}

SecondaryIndex == [Name : DroppedIndexNames, Unique : BOOLEAN, Columns : IndexColumnLists]

\* fmt.Sprintf("`%s`", name)
Backticked(name) == <<Backtick>> \o name \o <<Backtick>>

\* buildDropStatement
buildDropStatement(table, indexes) ==
  LET drops == [i \in DOMAIN indexes |-> <<"DROP INDEX ">> \o Backticked(indexes[i].Name)]
  IN <<"ALTER TABLE ">> \o Backticked(table) \o <<" ">> \o Join(drops, <<", ">>)

\* cols[j] of buildRestoreStatement
ColumnSpec(c) ==
  IF c.SubPart # "NULL"
    THEN Backticked(c.Name) \o <<"(", c.SubPart, ")">>
    ELSE Backticked(c.Name)

\* buildRestoreStatement
buildRestoreStatement(table, indexes) ==
  LET adds == [i \in DOMAIN indexes |->
                 LET idx == indexes[i]
                     cols == [j \in DOMAIN idx.Columns |-> ColumnSpec(idx.Columns[j])]
                     kind == IF idx.Unique THEN "UNIQUE INDEX" ELSE "INDEX"
                 IN <<"ADD ", kind, " ">> \o Backticked(idx.Name) \o <<" (">>
                      \o Join(cols, <<", ">>) \o <<")">>]
  IN <<"ALTER TABLE ">> \o Backticked(table) \o <<" ">> \o Join(adds, <<", ">>)

\* The database reads a quoted identifier up to the next backtick that is not
\* doubled; a doubled backtick stands for one backtick of the name.
Unreadable == [ok |-> FALSE, val |-> <<>>, next |-> 0]

RECURSIVE ReadQuoted(_, _, _)
ReadQuoted(stmt, i, acc) ==
  IF i > Len(stmt) THEN Unreadable
  ELSE IF stmt[i] = Backtick
    THEN IF i + 1 <= Len(stmt) /\ stmt[i + 1] = Backtick
           THEN ReadQuoted(stmt, i + 2, Append(acc, Backtick))
         ELSE IF acc = <<>> THEN Unreadable
         ELSE [ok |-> TRUE, val |-> acc, next |-> i + 1]
    ELSE ReadQuoted(stmt, i + 1, Append(acc, stmt[i]))

ReadIdentifier(stmt, i) ==
  IF i > Len(stmt) \/ stmt[i] # Backtick THEN Unreadable ELSE ReadQuoted(stmt, i + 1, <<>>)

Is(stmt, i, piece) == i <= Len(stmt) /\ stmt[i] = piece

\* `name` or `name`(length), then ", " and the next column or ")"
RECURSIVE ReadColumns(_, _, _)
ReadColumns(stmt, i, acc) ==
  LET id == ReadIdentifier(stmt, i) IN
  IF ~id.ok THEN Unreadable
  ELSE LET prefixed == /\ Is(stmt, id.next, "(")
                       /\ id.next + 2 <= Len(stmt)
                       /\ stmt[id.next + 1] \in SubParts \ {"NULL"}
                       /\ stmt[id.next + 2] = ")"
           col == [Name |-> id.val,
                   SubPart |-> IF prefixed THEN stmt[id.next + 1] ELSE "NULL"]
           after == IF prefixed THEN id.next + 3 ELSE id.next
       IN IF Is(stmt, after, ", ") THEN ReadColumns(stmt, after + 1, Append(acc, col))
          ELSE IF Is(stmt, after, ")")
            THEN [ok |-> TRUE, val |-> Append(acc, col), next |-> after + 1]
          ELSE Unreadable

\* ADD [UNIQUE] INDEX `name` (columns), one after the other
RECURSIVE ReadAdds(_, _, _)
ReadAdds(stmt, i, acc) ==
  IF ~(Is(stmt, i, "ADD ") /\ i + 2 <= Len(stmt)
       /\ stmt[i + 1] \in {"INDEX", "UNIQUE INDEX"} /\ stmt[i + 2] = " ")
    THEN Unreadable
  ELSE LET id == ReadIdentifier(stmt, i + 3) IN
       IF ~id.ok \/ ~Is(stmt, id.next, " (") THEN Unreadable
       ELSE LET cols == ReadColumns(stmt, id.next + 1, <<>>) IN
            IF ~cols.ok THEN Unreadable
            ELSE LET idx == [Name |-> id.val, Unique |-> stmt[i + 1] = "UNIQUE INDEX",
                             Columns |-> cols.val]
                 IN IF cols.next > Len(stmt)
                      THEN [ok |-> TRUE, val |-> Append(acc, idx), next |-> cols.next]
                    ELSE IF Is(stmt, cols.next, ", ")
                      THEN ReadAdds(stmt, cols.next + 1, Append(acc, idx))
                    ELSE Unreadable

\* DROP INDEX `name`, one after the other
RECURSIVE ReadDrops(_, _, _)
ReadDrops(stmt, i, acc) ==
  IF ~Is(stmt, i, "DROP INDEX ") THEN Unreadable
  ELSE LET id == ReadIdentifier(stmt, i + 1) IN
       IF ~id.ok THEN Unreadable
       ELSE IF id.next > Len(stmt)
         THEN [ok |-> TRUE, val |-> Append(acc, id.val), next |-> id.next]
       ELSE IF Is(stmt, id.next, ", ")
         THEN ReadDrops(stmt, id.next + 1, Append(acc, id.val))
       ELSE Unreadable

\* ALTER TABLE `table` and the alterations that follow it
ReadAlterTable(stmt, ReadRest(_, _, _)) ==
  IF ~Is(stmt, 1, "ALTER TABLE ") THEN Unreadable
  ELSE LET id == ReadIdentifier(stmt, 2) IN
       IF ~id.ok \/ ~Is(stmt, id.next, " ") THEN Unreadable
       ELSE ReadRest(stmt, id.next + 1, <<>>)

\* the table of the two statements
IndexedTable == <<"t">>

IndexStmtInit ==
  /\ ixIndexes \in
       {f \in UNION {[1..n -> SecondaryIndex] : n \in 1..MaxDropped} :
          \A a \in DOMAIN f : \A b \in DOMAIN f : f[a].Name = f[b].Name => a = b}
  /\ ixTable = Range(ixIndexes)
  /\ dropStmt = <<>>
  /\ restoreStmt = <<>>
  /\ ixPc = "drop"
  /\ IdleExcept("indexStmt")

\* dropSecondaryIndexes: stmt := buildDropStatement(table, indexes)
BuildDrop ==
  /\ ixPc = "drop"
  /\ dropStmt' = buildDropStatement(IndexedTable, ixIndexes)
  /\ ixPc' = "execdrop"
  /\ UNCHANGED <<ixTable, ixIndexes, restoreStmt>>
  /\ UNCHANGED otherThanIndexStmt

\* dropSecondaryIndexes: db.Exec(stmt); the statement fails as a whole when it
\* cannot be read or names an index the table does not have
ExecDrop ==
  /\ ixPc = "execdrop"
  /\ LET read == ReadAlterTable(dropStmt, ReadDrops)
         names == IF read.ok THEN Range(read.val) ELSE {}
     IN IF read.ok /\ \A n \in names : \E idx \in ixTable : idx.Name = n
          THEN /\ ixTable' = {idx \in ixTable : idx.Name \notin names}
               /\ ixPc' = "restore"
          ELSE /\ ixPc' = "dropfailed"
               /\ UNCHANGED ixTable
  /\ UNCHANGED <<ixIndexes, dropStmt, restoreStmt>>
  /\ UNCHANGED otherThanIndexStmt

\* restoreSecondaryIndexes: stmt := buildRestoreStatement(table, indexes)
BuildRestore ==
  /\ ixPc = "restore"
  /\ restoreStmt' = buildRestoreStatement(IndexedTable, ixIndexes)
  /\ ixPc' = "execrestore"
  /\ UNCHANGED <<ixTable, ixIndexes, dropStmt>>
  /\ UNCHANGED otherThanIndexStmt

\* restoreSecondaryIndexes: db.Exec(stmt); the statement fails as a whole when
\* it cannot be read, names an index the table has or a column it does not have
ExecRestore ==
  /\ ixPc = "execrestore"
  /\ LET read == ReadAlterTable(restoreStmt, ReadAdds)
         added == IF read.ok THEN Range(read.val) ELSE {}
     IN IF /\ read.ok
           /\ \A idx \in added :
                /\ \A old \in ixTable : old.Name # idx.Name
                /\ \A j \in DOMAIN idx.Columns : idx.Columns[j].Name \in TableColumnNames
          THEN /\ ixTable' = ixTable \cup added
               /\ ixPc' = "restored"
          ELSE /\ ixPc' = "restorefailed"
               /\ UNCHANGED ixTable
  /\ UNCHANGED <<ixIndexes, dropStmt, restoreStmt>>
  /\ UNCHANGED otherThanIndexStmt

IndexStmtNext ==
  \/ BuildDrop
  \/ ExecDrop
  \/ BuildRestore
  \/ ExecRestore

SpecIndexStmt == IndexStmtInit /\ [][IndexStmtNext]_vars

(***************************************************************************)
(* csvWriter.WriteRow, appendMySQLValue, appendEscapedString, and LOAD     *)
(* DATA reading the bytes with FIELDS TERMINATED BY '\t' LINES TERMINATED  *)
(* BY '\n' and the default ESCAPED BY '\\'. A byte is named by a string.   *)
(***************************************************************************)
\* len(s) of a string value at most
MaxFieldLen == 2

\* len(row)
FieldCounts == {1, 2}

\* the bytes of the string values: the five bytes that are escaped, and two
\* letters that follow a backslash in an escape
ValueBytes == {"TAB", "LF", "CR", "BACKSLASH", "NUL", "N", "n"}

\* the values of a field: nil, a string, an int
FieldValues ==
  {NULL, IntV(0), IntV(10)}
    \cup {StrV(b) : b \in UNION {[1..n -> ValueBytes] : n \in 0..MaxFieldLen}}

\* appendEscapedString without the case '\\'
EscapedByteKeepingBackslash(c) ==
  IF c = "TAB" THEN <<"BACKSLASH", "t">>
  ELSE IF c = "LF" THEN <<"BACKSLASH", "n">>
  ELSE IF c = "CR" THEN <<"BACKSLASH", "r">>
  ELSE IF c = "NUL" THEN <<"BACKSLASH", "0">>
  ELSE <<c>>

\* the switch of appendEscapedString and of appendEscapedBytes
EscapedByte(c) ==
  IF c = "TAB" THEN <<"BACKSLASH", "t">>
  ELSE IF c = "LF" THEN <<"BACKSLASH", "n">>
  ELSE IF c = "CR" THEN <<"BACKSLASH", "r">>
  ELSE IF c = "BACKSLASH" THEN <<"BACKSLASH", "BACKSLASH">>
  ELSE IF c = "NUL" THEN <<"BACKSLASH", "0">>
  ELSE <<c>>

RECURSIVE appendEscapedString(_, _)
appendEscapedString(buf, str) ==
  IF Len(str) = 0 THEN buf
  ELSE appendEscapedString(buf \o EscapedByte(Head(str)), Tail(str))

\* appendInt: fmt.Appendf(buf, "%d", v)
appendInt(buf, v) == buf \o Itoa(v)

appendMySQLValue(buf, val) ==
  IF val = NULL THEN buf \o <<"BACKSLASH", "N">>
  ELSE IF val.t = "string" THEN appendEscapedString(buf, val.s)
  ELSE appendInt(buf, val.i)

\* LOAD DATA: the byte an escape sequence stands for; a backslash before any
\* other byte is dropped
Unescaped(c) ==
  IF c = "t" THEN "TAB"
  ELSE IF c = "n" THEN "LF"
  ELSE IF c = "r" THEN "CR"
  ELSE IF c = "0" THEN "NUL"
  ELSE c

\* LOAD DATA: the bytes of a field without their escapes
RECURSIVE ReadField(_)
ReadField(bytes) ==
  IF Len(bytes) = 0 THEN <<>>
  ELSE IF Head(bytes) = "BACKSLASH" /\ Len(bytes) >= 2
    THEN <<Unescaped(bytes[2])>> \o ReadField(Tail(Tail(bytes)))
  ELSE <<Head(bytes)>> \o ReadField(Tail(bytes))

\* LOAD DATA: a field that is \N is NULL
FieldValue(bytes) ==
  IF bytes = <<"BACKSLASH", "N">> THEN NULL ELSE StrV(ReadField(bytes))

\* LOAD DATA: the lines of the bytes, every line the list of its fields; a tab
\* or a newline after a backslash belongs to the field
RECURSIVE ReadLines(_, _, _, _)
ReadLines(bytes, i, field, line) ==
  IF i > Len(bytes)
    THEN IF field = <<>> /\ line = <<>> THEN <<>>
         ELSE <<Append(line, FieldValue(field))>>
  ELSE IF bytes[i] = "BACKSLASH" /\ i < Len(bytes)
    THEN ReadLines(bytes, i + 2, field \o <<bytes[i], bytes[i + 1]>>, line)
  ELSE IF bytes[i] = "TAB"
    THEN ReadLines(bytes, i + 1, <<>>, Append(line, FieldValue(field)))
  ELSE IF bytes[i] = "LF"
    THEN <<Append(line, FieldValue(field))>> \o ReadLines(bytes, i + 1, <<>>, <<>>)
  ELSE ReadLines(bytes, i + 1, Append(field, bytes[i]), line)

CsvInit ==
  /\ csvRow \in UNION {[1..n -> FieldValues] : n \in FieldCounts}
  /\ csvBuf = <<>>
  /\ csvI = 1
  /\ csvPc = "fields"
  /\ csvWritten = <<>>
  /\ csvLoaded = <<>>
  /\ IdleExcept("csv")

\* one iteration of `for i, val := range row`
AppendField ==
  /\ csvPc = "fields"
  /\ csvBuf' = appendMySQLValue(IF csvI > 1 THEN Append(csvBuf, "TAB") ELSE csvBuf,
                                csvRow[csvI])
  /\ IF csvI = Len(csvRow)
       THEN csvPc' = "newline" /\ UNCHANGED csvI
       ELSE csvPc' = "fields" /\ csvI' = csvI + 1
  /\ UNCHANGED <<csvRow, csvWritten, csvLoaded>>
  /\ UNCHANGED otherThanCsv

\* cw.buf = append(cw.buf, '\n')
AppendNewline ==
  /\ csvPc = "newline"
  /\ csvBuf' = Append(csvBuf, "LF")
  /\ csvPc' = "write"
  /\ UNCHANGED <<csvRow, csvI, csvWritten, csvLoaded>>
  /\ UNCHANGED otherThanCsv

\* cw.w.Write(cw.buf)
WriteBuf ==
  /\ csvPc = "write"
  /\ csvWritten' = csvWritten \o csvBuf
  /\ csvPc' = "load"
  /\ UNCHANGED <<csvRow, csvBuf, csvI, csvLoaded>>
  /\ UNCHANGED otherThanCsv

\* the server reads what was written
LoadData ==
  /\ csvPc = "load"
  /\ csvLoaded' = ReadLines(csvWritten, 1, <<>>, <<>>)
  /\ csvPc' = "loaded"
  /\ UNCHANGED <<csvRow, csvBuf, csvI, csvWritten>>
  /\ UNCHANGED otherThanCsv

CsvNext ==
  \/ AppendField
  \/ AppendNewline
  \/ WriteBuf
  \/ LoadData

SpecCsv == CsvInit /\ [][CsvNext]_vars

(***************************************************************************)
(* computeRowCounts. order is the resolved order, so the parents of a      *)
(* table, which relations lists without the table itself, come before it.  *)
(***************************************************************************)
\* len(order)
NumCountTables == 3

CountTables == 1..NumCountTables

\* the values of tc.Rows, of baseRows, of (minC, maxC) and of maxRowsCap
RowOverrides == {0, 5}
BaseRowChoices == {1, 2}
MultiplierBounds == {1, 2}
RowCaps == {3, 6}

\* a table never counts as overridden
HasNoOverride(tcRows) == FALSE

\* `tc, ok := cfg.Tables[tableName]; ok && tc.Rows > 0`
HasOverride(tcRows) == tcRows > 0

\* the loop over parents: the largest count above 0 among the parents counted
maxParentRows(parents, counts) ==
  LET found == {counts[q] : q \in parents \cap DOMAIN counts} \cup {0}
  IN CHOOSE m \in found : \A n \in found : n <= m

\* the values minC + rand.IntN(maxC-minC+1) can take, minC when maxC <= minC
Multipliers(lo, hi) == IF hi > lo THEN lo..hi ELSE {lo}

\* the product is never cut down to the cap
Uncapped(computed, cap) == computed

\* `if computed > maxRowsCap { computed = maxRowsCap }`
Capped(computed, cap) == IF computed > cap THEN cap ELSE computed

RowCountInit ==
  /\ rcParents \in {f \in [CountTables -> SUBSET CountTables] :
                      \A t \in CountTables : \A q \in f[t] : q < t}
  /\ rcRows \in [CountTables -> RowOverrides]
  /\ baseRows \in BaseRowChoices
  /\ minC \in MultiplierBounds
  /\ maxC \in MultiplierBounds
  /\ maxRowsCap \in RowCaps
  /\ rowCounts = <<>>
  /\ rcI = 1
  /\ IdleExcept("rowCount")

\* one iteration of `for _, tableName := range order`; multiplier is what
\* minC + rand.IntN(maxC-minC+1) gives when it is called
ComputeRowCount(multiplier) ==
  /\ rcI \in CountTables
  /\ multiplier \in Multipliers(minC, maxC)
  /\ LET parents == rcParents[rcI]
         computed == maxParentRows(parents, rowCounts) * multiplier
         count == IF HasOverride(rcRows[rcI]) THEN rcRows[rcI]
                  ELSE IF parents = {} THEN baseRows
                  ELSE Capped(computed, maxRowsCap)
     IN rowCounts' = (rcI :> count) @@ rowCounts
  /\ rcI' = rcI + 1
  /\ UNCHANGED <<rcParents, rcRows, baseRows, minC, maxC, maxRowsCap>>
  /\ UNCHANGED otherThanRowCount

RowCountNext ==
  \E multiplier \in MultiplierBounds : ComputeRowCount(multiplier)

SpecRowCount == RowCountInit /\ [][RowCountNext]_vars

(***************************************************************************)
(* The generator of one column: seedTable's pkStartValues, NewRowGenerator, *)
(* buildGenerator, wrapNullable, wrapSingleUnique, and the values the      *)
(* generator returns to GenerateRow. The table has no correlation group.   *)
(***************************************************************************)
\* values asked from the column's generator
MaxProduced == 3
\* values and rows the uniqueness checks discard
MaxDiscarded == 2

\* the columns: the flags of introspect.Column, whether EnumValues is not
\* empty, whether the configuration has a template for the column, and whether
\* a name heuristic matches it
GenColumns ==
  [IsPrimaryKey : BOOLEAN, IsAutoInc : BOOLEAN, IsGenerated : BOOLEAN, IsInteger : BOOLEAN,
   IsNullable : BOOLEAN, IsUnique : BOOLEAN, HasFK : BOOLEAN, HasEnum : BOOLEAN,
   HasTemplate : BOOLEAN, HasHeuristic : BOOLEAN]

\* what picker.Pick(), the template, the heuristics and the type fallback return
BaseValues == {IntV(1), IntV(2)}

\* fetchMaxPK: MAX(column), 0 for an empty table
fetchMaxPK(inTable) ==
  IF inTable = {} THEN 0 ELSE CHOOSE m \in inTable : \A n \in inTable : n <= m

\* seedTable and NewRowGenerator: the sequence of the column, if it gets one
Sequence(col, inTable) ==
  IF col.IsPrimaryKey /\ ~col.IsAutoInc /\ col.IsInteger
    THEN <<fetchMaxPK(inTable) + 1>>
    ELSE <<>>

\* a generator that is never wrapped
neverNullable(col) == FALSE

\* wrapNullable: whether gen is wrapped
wrapNullable(col) == col.IsNullable /\ ~col.IsPrimaryKey

\* a buildGenerator that looks for a template before the enum values
buildGeneratorTemplateFirst(col, fkAvailable, seq) ==
  IF col.HasFK /\ fkAvailable
    THEN [kind |-> "fk", nullable |-> FALSE]
  ELSE IF col.IsPrimaryKey /\ ~col.IsAutoInc /\ col.IsInteger /\ seq # <<>>
    THEN [kind |-> "sequence", nullable |-> FALSE]
  ELSE IF col.HasTemplate
    THEN [kind |-> "template", nullable |-> wrapNullable(col)]
  ELSE IF col.HasEnum
    THEN [kind |-> "enum", nullable |-> wrapNullable(col)]
  ELSE IF col.HasHeuristic
    THEN [kind |-> "name", nullable |-> wrapNullable(col)]
  ELSE [kind |-> "type", nullable |-> wrapNullable(col)]

\* buildGenerator: the strategy, and whether it is wrapped by wrapNullable
buildGenerator(col, fkAvailable, seq) ==
  IF col.HasFK /\ fkAvailable
    THEN [kind |-> "fk", nullable |-> FALSE]
  ELSE IF col.IsPrimaryKey /\ ~col.IsAutoInc /\ col.IsInteger /\ seq # <<>>
    THEN [kind |-> "sequence", nullable |-> FALSE]
  ELSE IF col.HasEnum
    THEN [kind |-> "enum", nullable |-> wrapNullable(col)]
  ELSE IF col.HasTemplate
    THEN [kind |-> "template", nullable |-> wrapNullable(col)]
  ELSE IF col.HasHeuristic
    THEN [kind |-> "name", nullable |-> wrapNullable(col)]
  ELSE [kind |-> "type", nullable |-> wrapNullable(col)]

\* DescribeGenerator: the strategy it names
DescribeGenerator(col) ==
  IF col.IsAutoInc THEN "auto_increment"
  ELSE IF col.IsGenerated THEN "generated (skipped)"
  ELSE IF col.HasFK THEN "fk"
  ELSE IF col.IsPrimaryKey /\ ~col.IsAutoInc /\ col.IsInteger THEN "sequential"
  ELSE IF col.HasEnum THEN "enum"
  ELSE IF col.HasTemplate THEN "template"
  ELSE IF col.HasHeuristic THEN "heuristic"
  ELSE "type-based"

\* initUniqueTracking and wrapSingleUnique: what becomes of the generator
wrapSingleUnique(col, gen, seq) ==
  IF ~col.IsUnique \/ col.IsPrimaryKey \/ col.IsAutoInc
    THEN [kind |-> gen.kind, nullable |-> gen.nullable, unique |-> "none"]
  ELSE IF col.IsInteger /\ ~col.HasFK /\ seq # <<>>
    THEN [kind |-> "sequence", nullable |-> FALSE, unique |-> "sequence"]
  ELSE [kind |-> gen.kind, nullable |-> gen.nullable, unique |-> "retry"]

\* what one call of the generator without its uniqueness wrapper can return
Outputs(gen) == IF gen.nullable THEN BaseValues \cup {NULL} ELSE BaseValues

\* a counter that does not move
SequenceStuck(seq) == [value |-> IntV(seq[1]), seq |-> seq]

\* `seq.Add(1) - 1`
SequenceNext(seq) == [value |-> IntV(seq[1]), seq |-> <<seq[1] + 1>>]

ColumnGenInit ==
  /\ cgCol \in GenColumns
  /\ cgFKValues \in BOOLEAN
  /\ cgFKValues => cgCol.HasFK
  /\ cgInTable \in SUBSET {1, 2}
  /\ cgComposite \in BOOLEAN
  /\ cgGen = <<>>
  /\ cgSeq = <<>>
  /\ cgSeen = {}
  /\ cgPc = "new"
  /\ cgDescribed = ""
  /\ cgProduced = <<>>
  /\ cgRetried = 0
  /\ cgDiscarded = 0
  /\ IdleExcept("columnGen")

\* the dry run: the plan names the strategy of the column and nothing is seeded
Describe ==
  /\ cgPc = "new"
  /\ cgDescribed' = DescribeGenerator(cgCol)
  /\ cgPc' = "described"
  /\ UNCHANGED <<cgCol, cgFKValues, cgInTable, cgComposite, cgGen, cgSeq, cgSeen, cgProduced,
                 cgRetried, cgDiscarded>>
  /\ UNCHANGED otherThanColumnGen

\* seedTable lines 255-265 and NewRowGenerator: an auto-increment or generated
\* column gets no generator
NewRowGenerator ==
  /\ cgPc = "new"
  /\ LET seq == Sequence(cgCol, cgInTable) IN
       IF cgCol.IsAutoInc \/ cgCol.IsGenerated
         THEN /\ cgPc' = "skipped"
              /\ cgSeq' = seq
              /\ UNCHANGED cgGen
         ELSE /\ cgPc' = "ready"
              /\ cgSeq' = seq
              /\ cgGen' = wrapSingleUnique(cgCol, buildGenerator(cgCol, cgFKValues, seq), seq)
  /\ UNCHANGED <<cgCol, cgFKValues, cgInTable, cgComposite, cgSeen, cgProduced, cgRetried,
                 cgDiscarded, cgDescribed>>
  /\ UNCHANGED otherThanColumnGen

\* GenerateRow calls the generator of the column: v is what the strategy gives
\* at one call; the retry wrapper discards a value it has seen and calls again
GenerateValue(v) ==
  /\ cgPc = "ready"
  /\ Len(cgProduced) < MaxProduced
  /\ IF cgGen.kind = "sequence"
       THEN /\ v = NULL
            /\ cgProduced' = Append(cgProduced, SequenceNext(cgSeq).value)
            /\ cgSeq' = SequenceNext(cgSeq).seq
            /\ cgPc' = "check"
            /\ UNCHANGED <<cgSeen, cgRetried>>
     ELSE /\ v \in Outputs(cgGen)
          /\ IF cgGen.unique = "retry" /\ ~tryAdd(cgSeen, v).ok
               THEN /\ cgRetried < MaxDiscarded
                    /\ cgRetried' = cgRetried + 1
                    /\ UNCHANGED <<cgProduced, cgSeen, cgPc>>
               ELSE /\ cgProduced' = Append(cgProduced, v)
                    /\ cgSeen' = IF cgGen.unique = "retry" THEN tryAdd(cgSeen, v).seen
                                 ELSE cgSeen
                    /\ cgPc' = "check"
                    /\ UNCHANGED cgRetried
          /\ UNCHANGED cgSeq
  /\ UNCHANGED <<cgCol, cgFKValues, cgInTable, cgComposite, cgGen, cgDiscarded, cgDescribed>>
  /\ UNCHANGED otherThanColumnGen

\* GenerateRow: the row is returned, or checkCompositeUniques rejects it and
\* the next attempt generates every column again
RowChecked(accepted) ==
  /\ cgPc = "check"
  /\ IF accepted
       THEN UNCHANGED cgDiscarded
       ELSE /\ cgComposite
            /\ cgDiscarded < MaxDiscarded
            /\ cgDiscarded' = cgDiscarded + 1
  /\ cgPc' = "ready"
  /\ UNCHANGED <<cgCol, cgFKValues, cgInTable, cgComposite, cgGen, cgSeq, cgSeen,
                 cgProduced, cgRetried, cgDescribed>>
  /\ UNCHANGED otherThanColumnGen

ColumnGenNext ==
  \/ Describe
  \/ NewRowGenerator
  \/ \E v \in BaseValues \cup {NULL} : GenerateValue(v)
  \/ \E accepted \in BOOLEAN : RowChecked(accepted)

SpecColumnGen == ColumnGenInit /\ [][ColumnGenNext]_vars

(***************************************************************************)
(* detectFKCorrelations. A column is named by its position among the FK    *)
(* columns of its table.                                                   *)
(***************************************************************************)
\* most FK columns of the table
MaxFKColumns == 3

\* what an FK column can reference; table x is no key of allTables
RefTargets ==
  {[ReferencedTable |-> "p", ReferencedColumn |-> "id"],
   [ReferencedTable |-> "p", ReferencedColumn |-> "code"],
   [ReferencedTable |-> "q", ReferencedColumn |-> "id"],
   [ReferencedTable |-> "x", ReferencedColumn |-> "id"]}

\* the keys of allTables
ParentTables == {"p", "q"}

\* the FK columns of a parent table
ParentFKColumns == UNION {[1..n -> RefTargets] : n \in 0..2}

\* a comparison that never finds two columns with the same target
NeverSameTarget(fkA, fkB) == FALSE

\* `colA.FK.ReferencedTable == colB.FK.ReferencedTable &&
\*  colA.FK.ReferencedColumn == colB.FK.ReferencedColumn`
SameTarget(fkA, fkB) ==
  /\ fkA.ReferencedTable = fkB.ReferencedTable
  /\ fkA.ReferencedColumn = fkB.ReferencedColumn

\* `for _, pCol := range parentB.Columns`: the first FK column of the parent
\* that references the target, 0 if there is none
RECURSIVE FirstParentFK(_, _, _)
FirstParentFK(parentCols, target, k) ==
  IF k > Len(parentCols) THEN 0
  ELSE IF /\ parentCols[k].ReferencedTable = target.ReferencedTable
          /\ parentCols[k].ReferencedColumn = target.ReferencedColumn
    THEN k
  ELSE FirstParentFK(parentCols, target, k + 1)

\* `for _, colB := range fkCols`, from colB at position b on
RECURSIVE DriverLoop(_, _, _, _, _)
DriverLoop(fkCols, parents, a, b, acc) ==
  IF b > Len(fkCols) THEN acc
  ELSE IF a = b \/ a \in acc.claimed THEN DriverLoop(fkCols, parents, a, b + 1, acc)
  ELSE IF SameTarget(fkCols[a], fkCols[b]) THEN DriverLoop(fkCols, parents, a, b + 1, acc)
  ELSE IF fkCols[b].ReferencedTable \notin DOMAIN parents
    THEN DriverLoop(fkCols, parents, a, b + 1, acc)
  ELSE LET k == FirstParentFK(parents[fkCols[b].ReferencedTable], fkCols[a], 1)
       IN IF k = 0 THEN DriverLoop(fkCols, parents, a, b + 1, acc)
          ELSE [result |-> Append(acc.result,
                             [derivedCol |-> a, driverCol |-> b,
                              parentTable |-> fkCols[b].ReferencedTable,
                              parentPKCol |-> fkCols[b].ReferencedColumn,
                              parentFKCol |-> k]),
                claimed |-> acc.claimed \cup {a}]

\* `for _, colA := range fkCols`, from colA at position a on
RECURSIVE DerivedLoop(_, _, _, _)
DerivedLoop(fkCols, parents, a, acc) ==
  IF a > Len(fkCols) THEN acc
  ELSE IF a \in acc.claimed THEN DerivedLoop(fkCols, parents, a + 1, acc)
  ELSE DerivedLoop(fkCols, parents, a + 1, DriverLoop(fkCols, parents, a, 1, acc))

detectFKCorrelations(fkCols, parents) ==
  IF Len(fkCols) < 2 THEN <<>>
  ELSE DerivedLoop(fkCols, parents, 1, [result |-> <<>>, claimed |-> {}]).result

DetectInit ==
  /\ dtColumns \in UNION {[1..n -> RefTargets] : n \in 0..MaxFKColumns}
  /\ dtParents \in [ParentTables -> ParentFKColumns]
  /\ dtResult = <<>>
  /\ dtPc = "call"
  /\ IdleExcept("detect")

\* SeedAll line 176: `correlations := detectFKCorrelations(table, tableMap)`
Detect ==
  /\ dtPc = "call"
  /\ dtResult' = detectFKCorrelations(dtColumns, dtParents)
  /\ dtPc' = "done"
  /\ UNCHANGED <<dtColumns, dtParents>>
  /\ UNCHANGED otherThanDetect

DetectNext == Detect

SpecDetect == DetectInit /\ [][DetectNext]_vars

(***************************************************************************)
(* Properties of the dependency resolver.                                  *)
(***************************************************************************)
\* the FK references of table t that count: to another table of the set S
InSetParents(t, S) == (Range(allTables[t]) \cap S) \ {t}

\* tables added by one round of following FK references out of S
ReferencedFrom(S) ==
  {r \in DOMAIN allTables : \E t \in S : r # t /\ r \in Range(allTables[t])}

RECURSIVE ClosureOf(_)
ClosureOf(S) ==
  IF ReferencedFrom(S) \subseteq S THEN S ELSE ClosureOf(S \cup ReferencedFrom(S))

\* requested tables plus every table they reference transitively
ClosedSet == ClosureOf(requested)

\* the tables reachable from t by one or more in-set FK references
RECURSIVE Ancestors(_, _, _)
Ancestors(frontier, S, acc) ==
  LET step == UNION {InSetParents(x, S) : x \in frontier}
  IN IF step \subseteq acc THEN acc ELSE Ancestors(step \ acc, S, acc \cup step)

HasCycle(S) == \E t \in S : t \in Ancestors({t}, S, {})

PositionIn(s, x) == CHOOSE i \in 1..Len(s) : s[i] = x

\* C1: for an acyclic FK graph the order returned by Resolve holds every table
\* of the closed set exactly once, each strictly after all its in-set parents.
C1_OrderParentsFirst ==
  (rpc = "done" /\ ~HasCycle(ClosedSet)) =>
    /\ ~result.err
    /\ Range(result.order) = ClosedSet
    /\ NoDuplicates(result.order)
    /\ \A t \in ClosedSet : \A p \in InSetParents(t, ClosedSet) :
         PositionIn(result.order, p) < PositionIn(result.order, t)

\* a table with two FK columns to the same parent, a self-reference or an FK to
\* a missing table was ordered after an auto-included parent
C1_Witness ==
  /\ rpc = "done" /\ ~result.err
  /\ Len(result.order) = NumTables
  /\ \E t \in ClosedSet :
       /\ Cardinality(InSetParents(t, ClosedSet)) >= 1
       /\ Len(allTables[t]) > Cardinality(InSetParents(t, ClosedSet))

\* C2: the auto-included list holds, without duplicates, exactly the tables
\* that were not requested, exist in allTables and are reachable from a
\* requested table over FK references.
C2_AutoIncludedIsClosure ==
  (rpc = "done" /\ ~result.err) =>
    /\ Range(result.autoIncluded) = ClosedSet \ requested
    /\ NoDuplicates(result.autoIncluded)

\* one requested table, its parent and its grandparent auto-included and
\* ordered first
C2_Witness ==
  /\ rpc = "done" /\ ~result.err
  /\ Cardinality(requested) = 1
  /\ Len(result.autoIncluded) = 2
  /\ result.order[Len(result.order)] \in requested

\* C3: Resolve returns an error, and then no order, no auto-included list and
\* no relations, exactly when the closed set has an FK cycle through two or
\* more tables.
C3_ErrorIffCycle ==
  rpc = "done" =>
    /\ result.err <=> HasCycle(ClosedSet)
    /\ result.err =>
         /\ result.order = <<>>
         /\ result.autoIncluded = <<>>
         /\ result.relations = "none"

\* a cycle error although a parent had been auto-included
C3_Witness ==
  /\ rpc = "done" /\ result.err
  /\ Len(autoIncluded) > 0

\* C4: the reported path starts and ends with the same table, each table of it
\* has an FK column referencing the next one, all are in the set, and it is
\* never the placeholder.
C4_CyclePathIsCycle ==
  (rpc = "done" /\ result.err) =>
    LET path == result.cycle IN
    /\ path # <<"(unknown cycle)">>
    /\ Len(path) >= 3
    /\ path[1] = path[Len(path)]
    /\ \A i \in 1..Len(path) : path[i] \in tables
    /\ \A i \in 1..(Len(path) - 1) :
         path[i + 1] # path[i] /\ path[i + 1] \in Range(allTables[path[i]])

\* a cycle through three tables was reported
C4_Witness ==
  /\ rpc = "done" /\ result.err
  /\ Len(result.cycle) = 4

\* C27: on success the relations map lists, for every table of the closed set
\* with an in-set parent, exactly its in-set parents, each once and never the
\* table itself; a table without in-set parent has no entry or an empty one,
\* and no table outside the closed set has an entry.
C27_RelationsAreInSetParents ==
  (rpc = "done" /\ ~result.err) =>
    /\ DOMAIN result.relations \subseteq ClosedSet
    /\ \A t \in ClosedSet :
         IF t \in DOMAIN result.relations
           THEN /\ Range(result.relations[t]) = InSetParents(t, ClosedSet)
                /\ NoDuplicates(result.relations[t])
                /\ \A i \in DOMAIN result.relations[t] :
                     result.relations[t][i] # t /\ result.relations[t][i] \in ClosedSet
           ELSE InSetParents(t, ClosedSet) = {}

\* a table with two FK columns to one parent and a third column that
\* references itself or a missing table lists that parent once; its parent has
\* no entry
C27_Witness ==
  /\ rpc = "done" /\ ~result.err
  /\ \E t \in DOMAIN result.relations :
       /\ Len(allTables[t]) = 3
       /\ Len(result.relations[t]) = 1
       /\ allTables[t][1] = allTables[t][2]
       /\ allTables[t][3] \notin ClosedSet \ {t}
       /\ result.relations[t][1] \notin DOMAIN result.relations

(***************************************************************************)
(* Properties of the uniqueness enforcement.                               *)
(***************************************************************************)
\* the indexes of the table that have two or more columns, all of them generated
CompositeIndexes ==
  {k \in 1..Len(uniqueIndexes) :
     /\ Len(uniqueIndexes[k]) >= 2
     /\ \A j \in 1..Len(uniqueIndexes[k]) : uniqueIndexes[k][j] \in Range(GeneratedColumns)}

\* the values of row r on the columns of index k
Tuple(r, k) ==
  [j \in 1..Len(uniqueIndexes[k]) |->
     r[CHOOSE i \in 1..Len(GeneratedColumns) : GeneratedColumns[i] = uniqueIndexes[k][j]]]

NoNull(tuple) == \A j \in 1..Len(tuple) : tuple[j] # NULL

\* C5 (returned rows): a row is returned only if, on every composite unique
\* index on which it has no NULL, its tuple differs from the tuple of every
\* row returned before.
C5_ReturnedTuplesDiffer ==
  rowCount' = rowCount + 1 =>
    \A k \in CompositeIndexes :
      NoNull(Tuple(row', k)) => \A q \in rows : Tuple(q, k) # Tuple(row', k)

\* C5 (NULL): a dropped row collides, on an index on which it has no NULL, with
\* a row returned before; rows with a NULL on an index are not in its seen set.
C5_NullNeverRejected ==
  /\ (rowPc = "loop" /\ rowAttempt > 0) =>
       \E k \in 1..Len(compositeUniques) :
         /\ ~HasNullIn(compositeUniques[k], row)
         /\ \E q \in rows :
              /\ ~HasNullIn(compositeUniques[k], q)
              /\ CompositeKey(compositeUniques[k], q) = CompositeKey(compositeUniques[k], row)
  /\ \A k \in 1..Len(compositeUniques) :
       compositeUniques[k].seen =
         {CompositeKey(compositeUniques[k], q) :
            q \in {x \in rows : ~HasNullIn(compositeUniques[k], x)}}

\* C5: within one generator run no two returned rows have equal non-NULL
\* tuples on a composite unique index, and a NULL in an indexed column never
\* gets a row rejected by that index nor recorded in it.
C5_CompositeUnique == [][C5_ReturnedTuplesDiffer]_vars /\ []C5_NullNeverRejected

\* a row with a NULL on one index was dropped because of the other index
C5_Witness ==
  /\ rowPc = "loop" /\ rowAttempt > 0
  /\ Len(compositeUniques) = 2
  /\ HasNullIn(compositeUniques[1], row)
  /\ rowCount >= 1

\* C6 (steps): a returned row passed every composite check within the budget,
\* and giving up returns no row.
C6_ReturnOnlyChecked ==
  /\ rowCount' = rowCount + 1 =>
       /\ rowAttempt < maxUniqueRetries
       /\ checkCompositeUniques(compositeUniques, row')
       /\ rows' = rows \cup {row'}
  /\ rowPc' = "panic" => (rows' = rows /\ rowCount' = rowCount)

\* C6 (budget): at most maxUniqueRetries attempts; the abort happens exactly
\* when all of them collided.
C6_RetryBudget ==
  /\ rowAttempt <= maxUniqueRetries
  /\ rowPc = "panic" => (rowAttempt = maxUniqueRetries /\ Len(compositeUniques) > 0)

\* C6: GenerateRow tries a row at most 100 times, returns only a row that
\* passed every composite unique check, and aborts when all attempts collide.
C6_RetryThenAbort == [][C6_ReturnOnlyChecked]_vars /\ []C6_RetryBudget

\* all 100 attempts for the second row collided
C6_Witness ==
  /\ rowPc = "panic"
  /\ rowAttempt = maxUniqueRetries
  /\ rowCount = 1

\* C7: the non-NULL values a retry-wrapped unique column returns have
\* pairwise different string representations, NULL passes and is not
\* recorded, and a value takes at most 100 attempts, else generation aborts.
C7_SingleUnique ==
  /\ \A i \in 1..Len(returned) : \A j \in 1..Len(returned) :
       (i < j /\ returned[i] # NULL /\ returned[j] # NULL)
         => Sprint(returned[i]) # Sprint(returned[j])
  /\ seen = {Sprint(returned[i]) : i \in {n \in 1..Len(returned) : returned[n] # NULL}}
  /\ (upc = "loop" /\ attempt > 0) => (drawn # NULL /\ Sprint(drawn) \in seen)
  /\ attempt <= maxUniqueRetries
  /\ (upc = "idle" /\ Len(returned) > 0) => attempt < maxUniqueRetries
  /\ upc = "panic" => attempt = maxUniqueRetries

\* the generator returned NULL and a value, then ran out of retries
C7_Witness ==
  /\ upc = "panic"
  /\ attempt = maxUniqueRetries
  /\ Len(returned) = 2
  /\ \E i \in 1..2 : returned[i] = NULL

\* C8: in an incremental run no generated value of a unique column repeats a
\* value the table held before the run.
C8_NoCollisionWithPersisted ==
  ~clear =>
    \A i \in 1..Len(returned) : returned[i] # NULL => returned[i] \notin persisted

(***************************************************************************)
(* Properties of the correlated columns.                                   *)
(***************************************************************************)
\* what lookup l requires of the derived column in row r
Derived(l, r) ==
  IF r[l.DriverColumn] \in DOMAIN l.Mapping THEN l.Mapping[r[l.DriverColumn]] ELSE NULL

\* C9: in every generated row the derived column of every FK lookup holds the
\* mapping's value for the row's driver value, NULL when the mapping has none,
\* whatever the column order, also when one driver derives several columns and
\* when the driver of one lookup is the derived column of another.
C9_DerivedFollowsDriver ==
  fkRowCount > 0 =>
    \A k \in 1..Len(fkLookups) :
      fkRow[fkLookups[k].DerivedColumn] = Derived(fkLookups[k], fkRow)

\* the group's first configured column precedes its other members in the table
FirstConfiguredLeads ==
  \A k \in 2..Len(group) :
    PositionIn(corrColumns, group[1]) < PositionIn(corrColumns, group[k])

\* the members of the last row come from the one generation made for that row:
\* all NULL together, or the values of one entity
RowFromOneStep ==
  /\ steps = corrRowCount
  /\ \A c \in Range(group) : stepOf[c] = steps /\ corrRow[c] = state.values[c]
  /\ \/ \A c \in Range(group) : corrRow[c] = NULL
     \/ \E e \in Entities : \A c \in Range(group) : corrRow[c] = EntityValue(e, c)

C39_NotNullColumnsAreNeverNull ==
  corrRowCount > 0 =>
    \A c \in DOMAIN corrRow : c \notin corrNullable => corrRow[c] # NULL

(***************************************************************************)
(* Properties of the worker pool of seedTable.                             *)
(***************************************************************************)
\* cancel() was called by a worker at most once, exactly once when a failed
\* worker has left errOnce.Do; errCh holds at most the error of the worker
\* that entered errOnce.Do first
OneSignalOneError ==
  /\ cancelSignals <= 1
  /\ (errOnce = "done") <=> (cancelSignals = 1)
  /\ Len(errCh) <= 1
  /\ Len(errCh) = 1 => errCh[1] = signalled[1]
  /\ (stPc = "decide" /\ Len(signalled) > 0) => Len(errCh) = 1

\* C14 as stated: one cancellation signal and one recorded error, the first
\* one signalled, however many workers fail; seedTable returns an error if
\* and only if a worker's insert failed.
C14_ErrorIffWorkerFailed ==
  /\ OneSignalOneError
  /\ stPc = "returned" => (stReturn = "error" <=> Len(signalled) > 0)

\* C14, amended: the same, but seedTable also returns an error, before any
\* worker is started, when fetchMaxPK or NewRowGenerator fails.
C14_ErrorIffWorkerOrPrepareFailed ==
  /\ OneSignalOneError
  /\ stPc = "returned" => (stReturn = "error" <=> (Len(signalled) > 0 \/ prepFailed))
  /\ prepFailed => \A w \in Workers : wpc[w] = "off"

\* both workers' inserts failed; one signal, one error, and the error returned
C14_Witness ==
  /\ stPc = "returned" /\ stReturn = "error"
  /\ Len(signalled) = NumWorkers
  /\ cancelSignals = 1

\* C15: after a worker has signalled cancellation no batch is put into the
\* channel, and no batch put into it after the signal is inserted.
C15_NoBatchAfterCancel ==
  /\ lateBatches = {}
  /\ lateBatches \cap insertedBatches = {}

\* C16: seedTable decides the outcome and returns only when every worker has
\* exited: no insert statement is in flight then.
C16_ReturnsAfterWorkersExit ==
  stPc \in {"decide", "returned"} =>
    \A w \in Workers : wpc[w] \in {"off", "exited"}

\* seedTable returned an error after one worker failed and another one went on
\* inserting until the channel was closed
C16_Witness ==
  /\ stPc = "returned" /\ stReturn = "error"
  /\ Len(signalled) = 1
  /\ \A w \in Workers : wpc[w] = "exited"
  /\ Cardinality(insertedBatches) = MaxBatches

RECURSIVE SumOf(_)
SumOf(sizes) == IF sizes = <<>> THEN 0 ELSE Head(sizes) + SumOf(Tail(sizes))

\* no insert has failed
NoInsertFailed == signalled = <<>> /\ \A w \in Workers : wpc[w] \notin {"once", "cancel"}

\* every batch put into the channel holds between 1 and cfg.BatchSize rows, no
\* more rows are enqueued than the table lacks (all of them are enqueued or
\* still to generate until a worker cancels), and no batch is inserted twice
BatchesWellFormed ==
  /\ \A b \in DOMAIN enqueued : enqueued[b] \in 1..stRun.BatchSize
  /\ SumOf(enqueued) + remaining <= totalRows
  /\ cancelSignals = 0 => SumOf(enqueued) + remaining = totalRows
  /\ \A b \in DOMAIN insertedBy : Len(insertedBy[b]) <= 1

C34_OnlyProducerGenerates ==
  /\ generating \subseteq {"producer"}
  /\ (generating # {}) <=> (stPc = "generate")
  /\ \A w \in Workers : wpc[w] = "insert" => wBatch[w] \in DOMAIN enqueued

\* two workers are inside their insert statements while the producer generates
\* the rows of the next batch
C34_Witness ==
  /\ stPc = "generate"
  /\ generating = {"producer"}
  /\ wpc[1] = "insert" /\ wpc[2] = "insert"
  /\ wBatch[1] # wBatch[2]

\* C35: with at least one worker and a batch size of at least 1, seedTable
\* returns under every interleaving.
C35_SeedTableReturns == <>(stPc = "returned")

\* the only worker failed on its first batch and exited, the channel is full and
\* the producer is at its select with one more batch
C35_Witness ==
  /\ stPc = "select" /\ pending > 0
  /\ Len(batches) = BatchesCap
  /\ \A w \in Workers : wpc[w] \in {"off", "exited"}
  /\ Len(signalled) = stRun.Workers
  /\ Cardinality(insertedBatches) = stRun.Workers

(***************************************************************************)
(* Properties of SeedAll.                                                  *)
(***************************************************************************)
\* C11: when SeedAll returns, with nil or with any error, it has issued the
\* restore statement for exactly the indexes it dropped, for every table.
C11_RestoreOnEveryReturn ==
  saPc = "returned" =>
    \A t \in DOMAIN saDropped : saRestoreIssued[t] = saDropped[t]

\* C12: SeedAll never returns, with nil or with an error, while the foreign-key
\* and unique checks it disabled are both still disabled.
C12_ChecksReenabledOnReturn ==
  saPc = "returned" => checksOff # {"fk", "unique"}

\* C13: with the streaming bulk load selected and local_infile not enabled or
\* not readable, SeedAll returns an error and has executed no statement that
\* changes the database or the session.
C13_NoMutationWithoutLocalInfile ==
  (saPc # "off" /\ saCfg.LoadData /\ saCfg.localInfile # "on") =>
    /\ saPc \in {"infile", "returned"}
    /\ saPc = "returned" => saReturn = "error"
    /\ ~mutated
    /\ checksOff = {}
    /\ \A t \in DOMAIN saDone : saDone[t] = {} /\ saDropped[t] = {}
    /\ \A t \in DOMAIN rowsIn : rowsIn[t] = IF saTables[t].atTarget THEN TargetRows ELSE 0

\* an incremental bulk-load run with index deferral, on tables that have rows
\* and indexes, ended at the check because @@local_infile could not be read
C13_Witness ==
  /\ saPc = "returned" /\ saReturn = "error"
  /\ saCfg.LoadData /\ saCfg.localInfile = "unreadable"
  /\ saCfg.DeferIndexes /\ ~saCfg.Clear
  /\ \A t \in DOMAIN saTables : saTables[t].hasIndexes /\ saTables[t].atTarget

\* table u is finished: skipped as at target, or its inserts have finished,
\* the indexes dropped for it were restored and its primary key was cached
TableFinished(u) ==
  \/ saDone[u] = {"skip"}
  \/ /\ {"seed", "cachepk"} \subseteq saDone[u]
     /\ saDropped[u] # {} => ("restore" \in saDone[u] /\ saRestoreIssued[u] = saDropped[u])

\* C17: no step for a table is made before every table that precedes it in
\* cfg.Tables is finished.
C17_OneTableAtATime ==
  \A t \in DOMAIN saDone :
    /\ saDone[t] # {} => \A u \in 1..(t - 1) : TableFinished(u)
    /\ (saPc \in {"begin", "drop", "gather", "seed", "restore", "cachepk"} /\ t > saIdx)
         => saDone[t] = {}

\* the second table is being seeded after the first one had its indexes
\* dropped and restored
C17_Witness ==
  /\ saPc = "seed" /\ saIdx = 2
  /\ saDropped[1] # {}
  /\ "gather" \in saDone[2]

\* C18: in an incremental run a table at or above its target gets no row; its
\* primary key values are in the cache when SeedAll moves on, and a later
\* table that references it gets a non-empty list of FK values for it.
C18_SkippedTableFeedsChildren ==
  \A p \in DOMAIN saDone :
    "skip" \in saDone[p] =>
      /\ ~saCfg.Clear
      /\ saDone[p] = {"skip"}
      /\ rowsIn[p] = TargetRows
      /\ saDropped[p] = {}
      /\ (saIdx = p + 1 /\ saPc \in {"begin", "enable"}) =>
           (p \in DOMAIN fkCache /\ fkCache[p] > 0)
      /\ (saIdx > p /\ saPc \in {"seed", "restore", "cachepk"}
          /\ p \in saTables[saIdx].refs) =>
           (p \in DOMAIN tableFKValues /\ tableFKValues[p] > 0)

\* the first table was skipped and the second table, which references it, has
\* gathered its FK values
C18_Witness ==
  /\ saPc = "seed" /\ saIdx = 2
  /\ saDone[1] = {"skip"}
  /\ 1 \in saTables[2].refs
  /\ saCfg.FKSampleSize = 1

\* C19: once the table at index i has been processed, seeded or skipped, the
\* cache holds no entry whose last consumer is table i.
C19_EvictedAfterLastConsumer ==
  \A i \in DOMAIN saDone :
    i < saIdx =>
      \A k \in DOMAIN fkCache : ~(k \in DOMAIN lastConsumer /\ lastConsumer[k] = i)

\* C21: with a positive cfg.FKSampleSize K every entry of fkCache and every
\* list of tableFKValues holds at most K values; with K = 0 a list holds every
\* value its column had when it was fetched: a cache entry counts the rows of
\* its table (the table being seeded, when it references itself, gets its rows
\* after the fetch), and the lists handed to seedTable count the rows of the
\* referenced tables.
C21_FKSampleBound ==
  /\ saCfg.FKSampleSize > 0 =>
       /\ \A r \in DOMAIN fkCache : fkCache[r] <= saCfg.FKSampleSize
       /\ \A r \in DOMAIN tableFKValues : tableFKValues[r] <= saCfg.FKSampleSize
  /\ saCfg.FKSampleSize = 0 =>
       /\ \A r \in DOMAIN fkCache :
            IF r = saIdx THEN fkCache[r] <= rowsIn[r] ELSE fkCache[r] = rowsIn[r]
       /\ saPc = "seed" =>
            \A r \in DOMAIN tableFKValues : tableFKValues[r] = rowsIn[r]

\* a parent with more rows than the sample size was sampled down to the
\* sample size for the table about to be seeded
C21_Witness ==
  /\ saPc = "seed"
  /\ saCfg.FKSampleSize = 1
  /\ \E r \in DOMAIN tableFKValues :
       rowsIn[r] > 1 /\ tableFKValues[r] = 1 /\ fkCache[r] = 1

\* nothing was done for table t: not truncated or counted, no index dropped,
\* no row inserted
Untouched(t) ==
  /\ saDone[t] = {}
  /\ saDropped[t] = {}
  /\ saRestoreIssued[t] = {}
  /\ rowsIn[t] = IF saTables[t].atTarget THEN TargetRows ELSE 0

\* C33: when a step for a table fails, seedTable included, SeedAll returns the
\* error and no table that follows in cfg.Tables has been or is processed.
C33_ErrorEndsTheRun ==
  saReturn = "error" =>
    /\ saPc = "returned"
    /\ \A t \in DOMAIN saTables : t > saIdx => Untouched(t)

\* seedTable failed for the first table after it had inserted one row; the
\* tables after it, which reference it, are as they were
C33_Witness ==
  /\ saPc = "returned" /\ saReturn = "error"
  /\ saIdx = 1
  /\ "gather" \in saDone[1] /\ "seed" \notin saDone[1]
  /\ rowsIn[1] = 1
  /\ \A t \in DOMAIN saTables : t > 1 => (1 \in saTables[t].refs /\ Untouched(t))

\* table u was processed in this run, skipped or seeded to the end
Processed(u) == "skip" \in saDone[u] \/ "cachepk" \in saDone[u]

\* C36: when SeedAll gathers the FK values of a table, the cache holds the
\* entry of every table it references that was processed earlier in the run, so
\* the entry is reused and not fetched; the values the table gets are those of
\* the cache.
C36_NeededEntriesAreCached ==
  /\ saPc = "gather" =>
       \A r \in saTables[saIdx].refs : (r < saIdx /\ Processed(r)) => r \in DOMAIN fkCache
  /\ saPc = "seed" =>
       \A r \in saTables[saIdx].refs : r \in DOMAIN fkCache /\ tableFKValues[r] = fkCache[r]

\* the first table references itself and was seeded; the second table, its
\* last consumer, gathers its FK values and finds the entry
C36_Witness ==
  /\ saPc = "gather" /\ saIdx = 2
  /\ saTables[1].refs = {1} /\ 1 \in saTables[2].refs
  /\ "cachepk" \in saDone[1]
  /\ lastConsumer[1] = 2
  /\ 1 \in DOMAIN fkCache /\ fkCache[1] > 0

\* the greatest index of a table with an FK column that references k
LastReferencing(k) ==
  CHOOSE i \in DOMAIN saTables :
    /\ k \in saTables[i].refs
    /\ \A j \in DOMAIN saTables : k \in saTables[j].refs => j <= i

\* C40: computeLastConsumers has an entry exactly for the keys some FK column
\* references, and the entry is the greatest index of a table referencing the
\* key; the eviction after table i deletes exactly the entries with that index.
C40_LastConsumerIsGreatestIndex ==
  saPc # "off" =>
    /\ DOMAIN lastConsumer = UNION {saTables[i].refs : i \in DOMAIN saTables}
    /\ \A k \in DOMAIN lastConsumer : lastConsumer[k] = LastReferencing(k)
    /\ (saPc = "begin" /\ saIdx > 1 /\ "cachepk" \in saDone[saIdx - 1]) =>
         \A k \in DOMAIN lastConsumer : lastConsumer[k] = saIdx - 1 => k \notin DOMAIN fkCache

\* the first table is referenced by itself and by the second table, which
\* nobody references; the first table was seeded and its entry was kept
C40_Witness ==
  /\ saPc = "begin" /\ saIdx = 2
  /\ saTables[1].refs = {1} /\ saTables[2].refs = {1}
  /\ "cachepk" \in saDone[1]
  /\ lastConsumer = (1 :> 2)
  /\ 1 \in DOMAIN fkCache

(***************************************************************************)
(* Properties of reservoirSample.                                          *)
(***************************************************************************)
\* C20: reservoirSample returns values unchanged when maxSample <= 0 or
\* len(values) <= maxSample; otherwise it returns exactly maxSample items, each
\* copied from a position of values, and no position is taken twice.
C20_ReservoirSample ==
  rsPc = "done" =>
    IF maxSample <= 0 \/ Len(rsValues) <= maxSample
      THEN rsResult = rsValues
      ELSE /\ Len(rsResult) = maxSample
           /\ Len(reservoir) = maxSample
           /\ \A slot \in 1..maxSample :
                /\ reservoir[slot] \in 1..Len(rsValues)
                /\ rsResult[slot] = rsValues[reservoir[slot]]
           /\ NoDuplicates(reservoir)

\* two of four values were sampled, both slots were replaced, and the result
\* holds the same value twice, taken from two positions
C20_Witness ==
  /\ rsPc = "done"
  /\ maxSample = 2 /\ Len(rsValues) = 4
  /\ \A slot \in 1..2 : reservoir[slot] > 2
  /\ rsResult[1] = rsResult[2]
(***************************************************************************)
(* Properties of filterFKBackingIndexes.                                   *)
(***************************************************************************)
\* the leading columns of idx are the columns of the FK, whatever the case
LeadingColumnsAre(idx, fkCols) ==
  /\ Len(idx.Columns) >= Len(fkCols)
  /\ \A i \in 1..Len(fkCols) :
       \/ idx.Columns[i] = fkCols[i]
       \/ {idx.Columns[i], fkCols[i]} = {"a", "A"}

\* idx is the only index that can back one of the FK column sets
OnlyBackerOfSomeFK(idx) ==
  \E f \in DOMAIN fkColSets :
    /\ LeadingColumnsAre(idx, fkColSets[f])
    /\ \A j \in DOMAIN fiIndexes :
         LeadingColumnsAre(fiIndexes[j], fkColSets[f]) => fiIndexes[j] = idx

\* C22: when filterFKBackingIndexes has returned, kept holds, in the order of
\* indexes, the indexes that are the only backer of some FK column set, and
\* droppable holds, in order, all the others; with no FK column set every index
\* is droppable.
C22_FilterSplitsIndexes ==
  fiPc = "done" =>
    /\ kept = SelectSeq(fiIndexes, OnlyBackerOfSomeFK)
    /\ droppable = SelectSeq(fiIndexes, LAMBDA idx : ~OnlyBackerOfSomeFK(idx))
    /\ Len(kept) + Len(droppable) = Len(fiIndexes)
    /\ \A j \in DOMAIN fiIndexes :
         ~(\E a \in DOMAIN kept : \E b \in DOMAIN droppable :
             kept[a] = fiIndexes[j] /\ droppable[b] = fiIndexes[j])
    /\ Len(fkColSets) = 0 => (droppable = fiIndexes /\ kept = <<>>)

\* one FK is backed by two indexes and another, spelled in another case, by
\* one of them only: that one is kept and the other is dropped
C22_Witness ==
  /\ fiPc = "done"
  /\ Len(kept) = 1 /\ Len(droppable) = 1
  /\ \E f \in DOMAIN fks : Len(fks[f]) = 2
  /\ \E f \in DOMAIN fks :
       /\ Len(fks[f]) = 1
       /\ fiIndexes[fks[f][1]].Columns[1] # fkColSets[f][1]

\* C37: when filterFKBackingIndexes has returned, every FK column set that one
\* of the indexes can back is backed by one of the kept indexes, so it keeps a
\* backing index when the droppable ones are dropped.
C37_EveryFKKeepsABacker ==
  fiPc = "done" =>
    \A f \in DOMAIN fkColSets :
      (\E j \in DOMAIN fiIndexes : LeadingColumnsAre(fiIndexes[j], fkColSets[f])) =>
        \E a \in DOMAIN kept : LeadingColumnsAre(kept[a], fkColSets[f])

(***************************************************************************)
(* Properties of buildDropStatement and buildRestoreStatement.             *)
(***************************************************************************)
\* what the database makes of the restore statement is the list indexes
RestoreReadsAs(indexes) ==
  LET read == ReadAlterTable(restoreStmt, ReadAdds)
  IN read.ok /\ read.val = indexes

\* what the database makes of the drop statement is the names of indexes
DropReadsAs(indexes) ==
  LET read == ReadAlterTable(dropStmt, ReadDrops)
  IN read.ok /\ read.val = [i \in DOMAIN indexes |-> indexes[i].Name]

\* no name of the indexes, and of their columns, holds a backtick
PlainNames(indexes) ==
  \A i \in DOMAIN indexes :
    /\ \A k \in DOMAIN indexes[i].Name : indexes[i].Name[k] # Backtick
    /\ \A j \in DOMAIN indexes[i].Columns :
         \A k \in DOMAIN indexes[i].Columns[j].Name : indexes[i].Columns[j].Name[k] # Backtick

\* C23: whatever indexes were dropped, once the restore statement was
\* executed it has re-added the indexes the drop statement named, in order, each
\* with its name, uniqueness, columns and prefix lengths, and the table has the
\* secondary indexes it had before.
C23_RestoreReaddsDropped ==
  ixPc \in {"restored", "restorefailed"} =>
    /\ ixPc = "restored"
    /\ DropReadsAs(ixIndexes)
    /\ RestoreReadsAs(ixIndexes)
    /\ ixTable = Range(ixIndexes)

\* When no name holds a backtick the restore statement re-adds the indexes the
\* drop statement named, in order, each with its name, uniqueness, columns and
\* prefix lengths, and the table has the secondary indexes it had before.
PlainNamesAreRestored ==
  (PlainNames(ixIndexes) /\ ixPc \notin {"drop", "execdrop"}) =>
    /\ ixPc # "dropfailed"
    /\ DropReadsAs(ixIndexes)
    /\ ixPc \notin {"restore", "execrestore"} =>
         /\ ixPc = "restored"
         /\ RestoreReadsAs(ixIndexes)
         /\ ixTable = Range(ixIndexes)
(***************************************************************************)
(* Properties of csvWriter.WriteRow.                                       *)
(***************************************************************************)
\* the positions of bytes that come right after an escaping backslash
RECURSIVE EscapedPositions(_, _)
EscapedPositions(bytes, i) ==
  IF i >= Len(bytes) THEN {}
  ELSE IF bytes[i] = "BACKSLASH" THEN {i + 1} \cup EscapedPositions(bytes, i + 2)
  ELSE EscapedPositions(bytes, i + 1)

\* the positions of the byte c that no backslash escapes
UnescapedPositions(bytes, c) ==
  {i \in DOMAIN bytes : bytes[i] = c} \ EscapedPositions(bytes, 1)

\* the text a field value is written as
TextOf(val) == IF val = NULL THEN NULL ELSE StrV(Sprint(val))

\* C24: the bytes written for a row hold exactly len(row) - 1 unescaped tabs and
\* one unescaped newline, the last byte; no tab, newline, carriage return or NUL
\* of a value is written as itself and every backslash of a value is doubled;
\* nil is written as \N and nothing else is; and LOAD DATA reads the line back
\* as the row's field values.
C24_RowEncodingUnambiguous ==
  csvPc = "loaded" =>
    /\ Cardinality(UnescapedPositions(csvWritten, "TAB")) = Len(csvRow) - 1
    /\ UnescapedPositions(csvWritten, "LF") = {Len(csvWritten)}
    /\ \A i \in DOMAIN csvWritten :
         /\ csvWritten[i] \in {"TAB", "LF"} => i \notin EscapedPositions(csvWritten, 1)
         /\ csvWritten[i] \notin {"CR", "NUL"}
         /\ (csvWritten[i] = "BACKSLASH" /\ i \notin EscapedPositions(csvWritten, 1)) =>
              csvWritten[i + 1] \in {"t", "n", "r", "BACKSLASH", "0", "N"}
    /\ \A i \in DOMAIN csvRow :
         (appendMySQLValue(<<>>, csvRow[i]) = <<"BACKSLASH", "N">>) <=> (csvRow[i] = NULL)
    /\ csvLoaded = <<[i \in DOMAIN csvRow |-> TextOf(csvRow[i])]>>

\* a row of nil and of the string \N was written and read back
C24_Witness ==
  /\ csvPc = "loaded"
  /\ csvRow = <<NULL, StrV(<<"BACKSLASH", "N">>)>>
  /\ csvLoaded = <<csvRow>>
(***************************************************************************)
(* Properties of computeRowCounts.                                         *)
(***************************************************************************)
\* C25: a table whose configured Rows is positive gets exactly that count,
\* whatever its parents' counts, the multiplier range and the cap are.
C25_OverrideWins ==
  \A t \in DOMAIN rowCounts : rcRows[t] > 0 => rowCounts[t] = rcRows[t]

\* a child of a counted parent has an override above the cap, outside what
\* parent count times multiplier can give, and got it
C25_Witness ==
  \E t \in DOMAIN rowCounts :
    /\ rcParents[t] # {}
    /\ rcRows[t] > maxRowsCap
    /\ rowCounts[t] = rcRows[t]
    /\ \A m \in Multipliers(minC, maxC) : \A q \in rcParents[t] : rowCounts[q] * m # rcRows[t]

\* the largest count among the parents of t
LargestParentCount(t) ==
  CHOOSE c \in {rowCounts[q] : q \in rcParents[t]} :
    \A q \in rcParents[t] : rowCounts[q] <= c

\* C26: a table without a positive override gets baseRows when it has no
\* parent; otherwise it gets its largest parent count times some m with
\* minC <= m <= maxC (m = minC when maxC <= minC), or the cap when the product
\* is above the cap, so that its count is at most the cap.
C26_RootsAndChildren ==
  \A t \in DOMAIN rowCounts :
    rcRows[t] <= 0 =>
      IF rcParents[t] = {}
        THEN rowCounts[t] = baseRows
        ELSE /\ \E m \in minC..(IF maxC <= minC THEN minC ELSE maxC) :
                  LET product == LargestParentCount(t) * m
                  IN rowCounts[t] = IF product > maxRowsCap THEN maxRowsCap ELSE product
             /\ rowCounts[t] <= maxRowsCap

\* a child whose count is the product and its child whose count is the cap,
\* the larger of the two parents counting
C26_Witness ==
  /\ rcI > NumCountTables
  /\ \A t \in CountTables : rcRows[t] = 0
  /\ \E t \in CountTables : \E u \in CountTables :
       /\ rcParents[t] # {} /\ rowCounts[t] < maxRowsCap
       /\ t \in rcParents[u] /\ Cardinality(rcParents[u]) = 2
       /\ rowCounts[u] = maxRowsCap
       /\ rowCounts[t] * minC > maxRowsCap
(***************************************************************************)
(* Properties of the column generators.                                    *)
(***************************************************************************)
\* C28: a non-auto-increment integer primary key without FK values is
\* generated by the sequence; the first value of a sequence-generated primary
\* key is the largest value in the table plus one, 1 for an empty table, and
\* every later value is larger than the one before, discarded rows included.
C28_SequentialPrimaryKey ==
  cgPc \in {"ready", "check"} =>
    /\ (cgCol.IsPrimaryKey /\ cgCol.IsInteger /\ ~cgFKValues) => cgGen.kind = "sequence"
    /\ (cgCol.IsPrimaryKey /\ cgGen.kind = "sequence") =>
         /\ Len(cgProduced) >= 1 =>
              cgProduced[1] = IntV(IF cgInTable = {} THEN 1
                                   ELSE 1 + CHOOSE m \in cgInTable : \A n \in cgInTable : n <= m)
         /\ \A i \in DOMAIN cgProduced : \A j \in DOMAIN cgProduced :
              i < j => cgProduced[i].i < cgProduced[j].i

\* the table held 1 and 2, three rows were generated and two of them discarded
C28_Witness ==
  /\ cgPc = "ready"
  /\ cgCol.IsPrimaryKey /\ cgGen.kind = "sequence"
  /\ cgInTable = {1, 2}
  /\ cgProduced = <<IntV(3), IntV(4), IntV(5)>>
  /\ cgDiscarded = 2

\* C29: a unique integer column that is neither primary key nor FK is
\* generated by a sequential counter, and its wrapper never discards a value.
C29_UniqueIntegerIsSequential ==
  (/\ cgPc \in {"ready", "check"}
   /\ cgCol.IsUnique /\ cgCol.IsInteger /\ ~cgCol.IsPrimaryKey /\ ~cgCol.HasFK) =>
    /\ cgGen.unique = "sequence"
    /\ cgRetried = 0

StrategyOrder == <<"fk", "sequence", "enum", "template", "name", "type">>

Applies(col, fkAvailable) ==
  <<col.HasFK /\ fkAvailable, col.IsPrimaryKey /\ ~col.IsAutoInc /\ col.IsInteger,
    col.HasEnum, col.HasTemplate, col.HasHeuristic, TRUE>>

\* what DescribeGenerator can return, in the same order behind the two kinds of
\* column that get no generator; it is not given the parent values
DescribeOrder ==
  <<"auto_increment", "generated (skipped)", "fk", "sequential", "enum", "template",
    "heuristic", "type-based">>

DescribeApplies(col) ==
  <<col.IsAutoInc, col.IsGenerated, col.HasFK,
    col.IsPrimaryKey /\ ~col.IsAutoInc /\ col.IsInteger,
    col.HasEnum, col.HasTemplate, col.HasHeuristic, TRUE>>

FirstApplicable(applies) ==
  CHOOSE i \in DOMAIN applies : applies[i] /\ \A j \in 1..(i - 1) : ~applies[j]

\* C31: the generator of a column is the first applicable strategy of the order
\* FK with parent values, sequential integer primary key, enum, template, name
\* heuristic, type fallback (an FK column without parent values gets a later
\* one); DescribeGenerator names the first applicable of the same order, with
\* auto-increment and generated columns ahead of all.
C31_FirstApplicableStrategy ==
  /\ cgPc \in {"ready", "check"} =>
       /\ cgGen.kind = StrategyOrder[FirstApplicable(Applies(cgCol, cgFKValues))]
       /\ (cgCol.HasFK /\ ~cgFKValues) => cgGen.kind # "fk"
  /\ cgPc = "described" =>
       cgDescribed = DescribeOrder[FirstApplicable(DescribeApplies(cgCol))]

\* an FK column without parent values, with enum values, a template and a
\* matching name heuristic, produced a value as an enum column
C31_Witness ==
  /\ cgPc = "check"
  /\ cgCol.HasFK /\ ~cgFKValues
  /\ cgCol.HasEnum /\ cgCol.HasTemplate /\ cgCol.HasHeuristic
  /\ ~cgCol.IsPrimaryKey
  /\ cgGen.kind = "enum"
  /\ Len(cgProduced) = 1
(***************************************************************************)
(* Properties of detectFKCorrelations.                                     *)
(***************************************************************************)
\* C38: every correlation reported has a derived column A and a driver column
\* B, different columns with different targets, such that the table B
\* references is in allTables and its FK column named in the correlation
\* references exactly the table and column A references; a table with fewer
\* than two FK columns has no correlation; no column is derived twice.
C38_CorrelationsAreTransitive ==
  dtPc = "done" =>
    /\ Len(dtColumns) < 2 => dtResult = <<>>
    /\ \A i \in DOMAIN dtResult :
         LET c == dtResult[i]
             fkA == dtColumns[c.derivedCol]
             fkB == dtColumns[c.driverCol]
         IN /\ c.derivedCol # c.driverCol
            /\ fkA # fkB
            /\ c.parentTable = fkB.ReferencedTable
            /\ c.parentPKCol = fkB.ReferencedColumn
            /\ c.parentTable \in DOMAIN dtParents
            /\ c.parentFKCol \in DOMAIN dtParents[c.parentTable]
            /\ dtParents[c.parentTable][c.parentFKCol] = fkA
    /\ \A i \in DOMAIN dtResult : \A j \in DOMAIN dtResult :
         i # j => dtResult[i].derivedCol # dtResult[j].derivedCol

\* three FK columns, to p.id, to q.id and to p.id again; q references p.id, and
\* both columns to p.id are derived from the column to q.id
C38_Witness ==
  /\ dtPc = "done"
  /\ Len(dtColumns) = 3
  /\ dtColumns[1] = dtColumns[3] /\ dtColumns[1].ReferencedTable = "p"
  /\ dtColumns[2].ReferencedTable = "q"
  /\ Len(dtResult) = 2
  /\ dtResult[1].derivedCol = 1 /\ dtResult[1].driverCol = 2
  /\ dtResult[2].derivedCol = 3 /\ dtResult[2].driverCol = 2

====
